---- MODULE Spec2Model ----
(***************************************************************************)
(* Comic-to-Premiere: panel timing (modules/gemini_client.py), timeline    *)
(* serialization (modules/xml_generator.py) and the Process handler of     *)
(* the Streamlit page (app.py).                                            *)
(*                                                                         *)
(* Numbers.  A Python value is a record [kind, n, d, en, ed]:              *)
(*   kind = "num"     an int or a float (see the arithmetic section),      *)
(*   kind = "intstr"  a string spelled as an integer, e.g. "2",            *)
(*   kind = "numstr"  a string spelled as a decimal, e.g. "2.0" or "0.5",  *)
(*   kind = "str"     a string that is not a numeral, e.g. "abc",          *)
(*   kind = "null"    None (JSON null).                                    *)
(* Times are drawn in ticks of 1/4 s: these are exact floats, they fall on *)
(* whole frames (0.5 s = 15 frames) and exactly halfway between two        *)
(* frames (0.25 s = 7.5, 0.75 s = 22.5); dividing them among the panels    *)
(* gives floats such as 6.25/3 that are no longer exact.                   *)
(***************************************************************************)
EXTENDS Integers, Sequences, FiniteSets, TLC

VARIABLES
    pc,               \* position of the harness / of the Process handler
    request,          \* api_key, audio_data and script given to analyze_audio_timing
    panel_count,      \* argument of generate_fallback_timings / analyze_audio_timing
    total_duration,   \* argument of generate_fallback_timings
    fallback,         \* what generate_fallback_timings returned or raised
    response,         \* what the Gemini call did, as analyze_audio_timing sees it
    analysis,         \* what analyze_audio_timing returned or raised
    image_filenames,  \* argument of create_premiere_xml
    timings,          \* argument of create_premiere_xml
    audio_filename,   \* argument of create_premiere_xml; in the page, audio_file.name
    audio_duration,   \* argument of create_premiere_xml
    xml,              \* what create_premiere_xml returned or raised
    temp_audio,       \* the temporary audio file of the last analyze_audio_timing call
    uploaded_files,          \* the files the panels uploader widget holds
    uploaded_panels_list,    \* st.session_state.uploaded_panels_list
    panels_order_reversed,   \* st.session_state.panels_order_reversed
    processed_images_cache,  \* st.session_state.processed_images_cache
    processing_complete,     \* st.session_state.processing_complete
    zip_data,                \* st.session_state.zip_data
    session_timings,         \* st.session_state.timings
    messages,                \* what the last Process run showed (st.error, st.warning, ...)
    run                      \* the Process handler under way: its position and locals

callVars == <<request, panel_count, total_duration, fallback, response, analysis,
              image_filenames, timings, audio_filename, audio_duration, xml>>

appVars == <<uploaded_files, uploaded_panels_list, panels_order_reversed,
             processed_images_cache,
             processing_complete, zip_data, session_timings, messages, run>>

vars == <<pc, callVars, temp_audio, appVars>>

----------------------------------------------------------------------------
(* Bounds of the model *)

MaxPanels == 4
MaxTicks == 36
MaxImages == 3
MaxTimings == 2
MaxRaw == 3
MaxUpload == 2
MaxReply == 2

----------------------------------------------------------------------------
(* Numbers: Python floats (IEEE 754 binary64, round to nearest, ties to    *)
(* even) and the integers the code mixes with them.                        *)
(*                                                                         *)
(* A number is the record [kind, n, d, en, ed].  With d > 0 its value is   *)
(*     n/d + (en/ed) * Ulp(n/d),     Ulp(q) = 2^(Exp2(|q|) - 52),          *)
(* n/d and en/ed in lowest terms: a small rational and the distance of     *)
(* the float from it, counted in units of the last place.  A rational      *)
(* that binary64 holds exactly has en = 0; 25/12 is not one, and the float *)
(* 6.25/3 is 25/12 + (1/3) ulp.  d = 0 marks the values without a          *)
(* rational: n = 1 is inf, n = -1 is -inf and n = 0 is nan.                *)
(* The operators below give the correctly rounded result of each           *)
(* operation, as the hardware does, for operands whose n/d has a           *)
(* denominator below 2^14 and a magnitude between 2^-20 and 2^20; a sum    *)
(* whose rational parts cancel while the distances do not is outside.      *)

Abs(x) == IF x < 0 THEN -x ELSE x

Min(a, b) == IF a <= b THEN a ELSE b

Sign(x) == IF x > 0 THEN 1 ELSE IF x < 0 THEN -1 ELSE 0

RECURSIVE GCD(_, _)
GCD(a, b) == IF b = 0 THEN a ELSE GCD(b, a % b)

\* n/d with the common divisor g taken out
Reduced(n, d, g) == <<n \div g, d \div g>>

\* the rational n/d (d > 0) in lowest terms, as the pair <<n, d>>
Rat(n, d) == Reduced(n, d, GCD(Abs(n), d))

\* a + b, g the greatest common divisor of the denominators
RatAddBy(a, b, g) ==
    Rat(a[1] * (b[2] \div g) + b[1] * (a[2] \div g), (a[2] \div g) * b[2])

RatAdd(a, b) == RatAddBy(a, b, GCD(a[2], b[2]))

\* a * b, g and h the common divisors across the two fractions
RatMulBy(a, b, g, h) == Rat((a[1] \div g) * (b[1] \div h), (a[2] \div h) * (b[2] \div g))

RatMul(a, b) == RatMulBy(a, b, GCD(Abs(a[1]), b[2]), GCD(Abs(b[1]), a[2]))

RatNeg(a) == <<-a[1], a[2]>>

RECURSIVE Pow2(_)
Pow2(k) == IF k = 0 THEN 1 ELSE 2 * Pow2(k - 1)

\* a * 2^k for an integer k of either sign
RatScale(a, k) == IF k >= 0 THEN Rat(a[1] * Pow2(k), a[2]) ELSE Rat(a[1], a[2] * Pow2(-k))

RECURSIVE IsPow2(_)
IsPow2(d) == d = 1 \/ (d % 2 = 0 /\ IsPow2(d \div 2))

\* floor(log2(n/d)) for n, d > 0: the exponent of the float nearest to n/d
RECURSIVE Exp2(_, _)
Exp2(n, d) ==
    IF n >= 2 * d THEN Exp2(n, 2 * d) + 1
    ELSE IF n < d THEN Exp2(2 * n, d) - 1
    ELSE 0

\* 2^k mod m
RECURSIVE Pow2Mod(_, _)
Pow2Mod(k, m) == IF k = 0 THEN 1 % m ELSE (2 * Pow2Mod(k - 1, m)) % m

Finite(n, d, en, ed) == [kind |-> "num", n |-> n, d |-> d, en |-> en, ed |-> ed]

\* an int, and the float it converts to
IntNum(n) == Finite(n, 1, 0, 1)

Inf == [kind |-> "num", n |-> 1, d |-> 0, en |-> 0, ed |-> 1]
NegInf == [kind |-> "num", n |-> -1, d |-> 0, en |-> 0, ed |-> 1]
NaN == [kind |-> "num", n |-> 0, d |-> 0, en |-> 0, ed |-> 1]

\* an int above the range of the floats, such as json.loads gives for the
\* JSON integer 1 followed by 400 zeros: an int for int(), and a value on
\* which float() raises OverflowError
Huge == [kind |-> "bigint", n |-> 1, d |-> 0, en |-> 0, ed |-> 1]

IsNum(v) == v.kind = "num"
IsInf(v) == v.d = 0 /\ v.n # 0
IsNaN(v) == v.d = 0 /\ v.n = 0
IsFinite(v) == v.d # 0

\* The float nearest to q + delta * Ulp(q) for a rational q = n/d > 0 and a
\* rational delta; when that real number is halfway between two floats,
\* tie says on which side of it the exact result lies (1 above, -1 below),
\* and with tie = 0 it is the halfway point itself and goes to the float
\* with the even significand.
\* With m = q / Ulp(q), the floats around q are the integers around m, and
\* below a power of two the half-integers too.  The operators below take
\* the computation one step each, from the last to the first.

\* the float n/d + off * Ulp(n/d)
FiniteAt(n, d, off) == Finite(n, d, off[1], off[2])

\* the float j steps (half steps below a power of two) from floor(m)
RoundPicked(n, d, frac, half, j) ==
    FiniteAt(n, d, RatAdd(IF half THEN Rat(j, 2) ELSE <<j, 1>>, RatNeg(frac)))

\* y is the distance of the result from floor(m) in steps, odd the parity
\* of floor(m): the nearest step, at a tie the one tie points to, else the
\* even one
RoundRest(n, d, frac, half, odd, y, tie) ==
    LET low == y[1] \div y[2]
        rest == y[1] - low * y[2]
        up == \/ 2 * rest > y[2]
              \/ /\ 2 * rest = y[2]
                 /\ \/ tie > 0
                    \/ tie = 0 /\ (odd + low) % 2 = 1
    IN  RoundPicked(n, d, frac, half, IF up THEN low + 1 ELSE low)

\* x is the distance of the result from floor(m) in units of the last
\* place; binade: n/d is a power of two, below which the floats lie half
\* as far apart
RoundSum(n, d, frac, odd, binade, x, tie) ==
    IF binade /\ x[1] < 0
    THEN RoundRest(n, d, frac, TRUE, 0, <<2 * x[1], x[2]>>, tie)
    ELSE RoundRest(n, d, frac, FALSE, odd, x, tie)

\* frac = m - floor(m)
RoundFrac(n, d, frac, odd, binade, delta, tie) ==
    RoundSum(n, d, frac, odd, binade, RatAdd(frac, delta), tie)

\* r/d = m mod 2
RoundGrid(n, d, r, delta, tie) ==
    RoundFrac(n, d, Rat(r % d, d), IF r >= d THEN 1 ELSE 0,
              r = 0 /\ IsPow2(n) /\ IsPow2(d), delta, tie)

\* the numerator of m mod 2 over d, for m = (n/d) * 2^(52 - Exp2(n, d))
GridPosition(n, d) == ((n % (2 * d)) * Pow2Mod(52 - Exp2(n, d), 2 * d)) % (2 * d)

RoundPositive(q, delta, tie) == RoundGrid(q[1], q[2], GridPosition(q[1], q[2]), delta, tie)

\* the float p with the sign s
Signed(s, p) == Finite(s * p.n, p.d, s * p.en, p.ed)

RoundToFloat(q, delta, tie) ==
    IF q[1] = 0 THEN Finite(0, 1, 0, 1)
    ELSE Signed(Sign(q[1]),
                RoundPositive(<<Abs(q[1]), q[2]>>, <<Sign(q[1]) * delta[1], delta[2]>>,
                              Sign(q[1]) * tie))

\* the float nearest to the rational q in lowest terms
NumOf(q) ==
    IF IsPow2(q[2]) THEN Finite(q[1], q[2], 0, 1) ELSE RoundToFloat(q, <<0, 1>>, 0)

\* the float of the decimal numeral or fraction n/d (d > 0): float("2.05")
\* is Num(41, 20), the float nearest to 41/20
Num(n, d) == NumOf(Rat(n, d))

Q(v) == <<v.n, v.d>>
Off(v) == <<v.en, v.ed>>
\* Exp2 of a finite value that is not 0
E2(v) == Exp2(Abs(v.n), v.d)

\* the float nearest to the product, q the product of the rational parts
\* and e its exponent
MulRound(a, b, q, e) ==
    RoundToFloat(q, RatAdd(RatScale(RatMul(Off(a), Q(b)), E2(a) - e),
                           RatScale(RatMul(Off(b), Q(a)), E2(b) - e)),
                 Sign(a.en) * Sign(b.en))

MulExact(a, b, q) == MulRound(a, b, q, Exp2(Abs(q[1]), q[2]))

\* a * b
Mul(a, b) ==
    IF IsNaN(a) \/ IsNaN(b) THEN NaN
    ELSE IF ~ IsFinite(a) \/ ~ IsFinite(b)
    THEN IF a.n = 0 \/ b.n = 0 THEN NaN
         ELSE IF Sign(a.n) = Sign(b.n) THEN Inf ELSE NegInf
    ELSE IF a.n = 0 \/ b.n = 0 THEN Finite(0, 1, 0, 1)
    ELSE MulExact(a, b, RatMul(Q(a), Q(b)))

\* the float nearest to the quotient, q the quotient of the rational part
DivExact(a, k, q) ==
    RoundToFloat(q, RatScale(RatMul(Off(a), <<1, k>>), E2(a) - Exp2(Abs(q[1]), q[2])), 0)

\* a / k for an integer k >= 1
DivInt(a, k) ==
    IF ~ IsFinite(a) THEN a
    ELSE IF a.n = 0 THEN a
    ELSE DivExact(a, k, Rat(a.n, a.d * k))

\* the float nearest to the sum, q the sum of the rational parts and e its
\* exponent
AddRound(a, b, q, e) ==
    RoundToFloat(q, RatAdd(RatScale(Off(a), E2(a) - e), RatScale(Off(b), E2(b) - e)), 0)

AddExact(a, b, q) ==
    IF q[1] = 0 THEN Finite(0, 1, 0, 1) ELSE AddRound(a, b, q, Exp2(Abs(q[1]), q[2]))

\* a + b
Add(a, b) ==
    IF IsNaN(a) \/ IsNaN(b) THEN NaN
    ELSE IF ~ IsFinite(a) THEN IF ~ IsFinite(b) /\ b.n # a.n THEN NaN ELSE a
    ELSE IF ~ IsFinite(b) THEN b
    ELSE IF a.n = 0 THEN b
    ELSE IF b.n = 0 THEN a
    ELSE AddExact(a, b, RatAdd(Q(a), Q(b)))

\* a < b and a <= b; every comparison with nan is False
Less(a, b) ==
    IF IsNaN(a) \/ IsNaN(b) THEN FALSE
    ELSE IF ~ IsFinite(a) THEN a.n < 0 /\ b # a
    ELSE IF ~ IsFinite(b) THEN b.n > 0
    ELSE \/ a.n * b.d < b.n * a.d
         \/ a.n * b.d = b.n * a.d /\ a.en * b.ed < b.en * a.ed

LessEq(a, b) == ~ IsNaN(a) /\ ~ IsNaN(b) /\ (a = b \/ Less(a, b))

\* round(n/d) of Python 3 for the rational n/d: nearest integer, ties to
\* the even one
PyRound(n, d) ==
    LET q == n \div d
        r == n - q * d
    IN  IF 2 * r < d THEN q
        ELSE IF 2 * r > d THEN q + 1
        ELSE IF q % 2 = 0 THEN q ELSE q + 1

\* round(x) for a finite float: a float next to k + 1/2 is not a tie
RoundFloat(x) ==
    IF x.d = 2 /\ x.en # 0
    THEN IF x.en > 0 THEN (x.n + 1) \div 2 ELSE (x.n - 1) \div 2
    ELSE PyRound(x.n, x.d)

\* int(x) for a finite float: towards zero
TruncFloat(x) ==
    LET t == IF x.n >= 0 THEN x.n \div x.d ELSE -((-x.n) \div x.d)
    IN  IF x.d = 1 /\ x.n > 0 /\ x.en < 0 THEN t - 1
        ELSE IF x.d = 1 /\ x.n < 0 /\ x.en > 0 THEN t + 1
        ELSE t

\* round half up: nearest integer, ties to the larger one
RoundHalfUp(n, d) == (2 * n + d) \div (2 * d)

\* Strings and None.  A string that float() accepts carries the rational its
\* text denotes: IntStr(n) is spelled as an integer ("2"), the only spelling
\* int() accepts; NumStr(n, d) is spelled with a decimal point or an
\* exponent ("2.0", "0.5", "1e0"); the strings "inf" and "nan" are NumStr
\* with d = 0.  Str is a string that is no numeral, Null is None.
IntStr(n) == [kind |-> "intstr", n |-> n, d |-> 1, en |-> 0, ed |-> 1]
NumStr(n, d) == [kind |-> "numstr", n |-> Rat(n, d)[1], d |-> Rat(n, d)[2], en |-> 0, ed |-> 1]
InfStr == [kind |-> "numstr", n |-> 1, d |-> 0, en |-> 0, ed |-> 1]
NaNStr == [kind |-> "numstr", n |-> 0, d |-> 0, en |-> 0, ed |-> 1]
Str == [kind |-> "str", n |-> 0, d |-> 1, en |-> 0, ed |-> 1]
Null == [kind |-> "null", n |-> 0, d |-> 1, en |-> 0, ed |-> 1]

\* Texts.  A text whose characters the code looks at (the script, a file
\* name written into the document) is the sequence of its code points.
\* Chars gives the text of a string of printable ASCII characters (all but
\* the grave accent), tabs, line feeds, form feeds and carriage returns.
\* the characters of the codes 32 to 95 and 97 to 126
Ascii32 == " !\"#$%&'()*+,-./0123456789:;<=>?@ABCDEFGHIJKLMNOPQRSTUVWXYZ[\\]^_"
Ascii97 == "abcdefghijklmnopqrstuvwxyz{|}~"

\* where the character c stands in the string table, 0 if nowhere
Position(c, table) ==
    IF \E i \in 1..Len(table) : SubSeq(table, i, i) = c
    THEN CHOOSE i \in 1..Len(table) : SubSeq(table, i, i) = c
    ELSE 0

CodeOf(c) ==
    IF c = "\t" THEN 9
    ELSE IF c = "\n" THEN 10
    ELSE IF c = "\f" THEN 12
    ELSE IF c = "\r" THEN 13
    ELSE IF Position(c, Ascii32) > 0 THEN 31 + Position(c, Ascii32)
    ELSE 96 + Position(c, Ascii97)

Chars(s) == [i \in 1..Len(s) |-> CodeOf(SubSeq(s, i, i))]

----------------------------------------------------------------------------
(* modules/xml_generator.py *)

FPS == 30
TIMEBASE == "30"

\* the conversion at 25 frames per second
seconds_to_frames_pal(seconds) == RoundFloat(Mul(seconds, IntNum(25)))

\* int(round(seconds * FPS)) for a finite value: the product is rounded to a
\* float first, then to an integer.  For inf round() raises OverflowError and
\* for nan ValueError, which create_premiere_xml below turns into "raise".
seconds_to_frames(seconds) == RoundFloat(Mul(seconds, IntNum(FPS)))

\* dict.get(key, default)
Get(dict, key, default) == IF key \in DOMAIN dict THEN dict[key] ELSE default

\* <rate> of the sequence and of every clipitem
Rate == [timebase |-> TIMEBASE, ntsc |-> "FALSE"]

\* lines 57-84: the <clipitem> of a panel from its converted values
VideoClipItem(i, img_name, start_frames, duration_frames) ==
    [id |-> i, name |-> img_name, duration |-> duration_frames + 1000,
     rate |-> Rate,
     start |-> start_frames, end |-> start_frames + duration_frames,
     in |-> 0, out |-> duration_frames,
     file_name |-> img_name, pathurl |-> img_name]

\* the out-point written from end_frames instead of duration_frames
VideoClip_out_is_end(i, img_name, timing) ==
    [VideoClipItem(i, img_name,
                   seconds_to_frames(Get(timing, "start_time", IntNum(0))),
                   seconds_to_frames(Get(timing, "duration", IntNum(3))))
        EXCEPT !.out = seconds_to_frames(Get(timing, "start_time", IntNum(0))) + @]

\* lines 54-84: one <clipitem> of the video track, built from
\* zip(image_filenames, timings)[i]
VideoClip(i, img_name, timing) ==
    VideoClipItem(i, img_name,
                  seconds_to_frames(Get(timing, "start_time", IntNum(0))),
                  seconds_to_frames(Get(timing, "duration", IntNum(3))))

\* lines 95-116: the <clipitem> of an audio track from the converted duration
AudioClipItem(channel_num, audio_name, duration_frames) ==
    [id |-> channel_num, name |-> audio_name, duration |-> duration_frames,
     rate |-> Rate,
     start |-> 0, end |-> duration_frames, in |-> 0, out |-> duration_frames,
     file_name |-> audio_name, pathurl |-> audio_name,
     trackindex |-> channel_num]

\* the <clipitem> of the audio track of channel channel_num
AudioClip(channel_num, audio_name, audio_dur) ==
    AudioClipItem(channel_num, audio_name, seconds_to_frames(audio_dur))

\* lines 119-120: characters that a document of XML 1.0 cannot hold.
\* ET.tostring writes them as they are (a surrogate as a character
\* reference) and minidom.parseString raises ExpatError on them.
XmlForbidden(c) ==
    \/ c \in 0..8
    \/ c \in {11, 12}
    \/ c \in 14..31
    \/ c \in 55296..57343
    \/ c \in {65534, 65535}

WellFormed(text) == \A i \in 1..Len(text) : ~ XmlForbidden(text[i])

\* lines 119-121: the text of an element as the returned document holds it.
\* ET.tostring escapes &, < and >, which the parser reads back; it writes a
\* carriage return as it is, and the parser reads a carriage return, with
\* the line feed after it if there is one, as one line feed.
RECURSIVE XmlText(_)
XmlText(text) ==
    IF text = <<>> THEN <<>>
    ELSE IF Head(text) # 13 THEN <<Head(text)>> \o XmlText(Tail(text))
    ELSE IF Len(text) >= 2 /\ text[2] = 10 THEN <<10>> \o XmlText(Tail(Tail(text)))
    ELSE <<10>> \o XmlText(Tail(text))

\* lines 119-121 for a clipitem: its three texts taken from a file name
ParsedClip(clip) ==
    [clip EXCEPT !.name = XmlText(@), !.file_name = XmlText(@), !.pathurl = XmlText(@)]

\* line 120: minidom.parseString raises on a name written into the document
ParseRaises(filenames, tms, audio_name) ==
    \/ ~ WellFormed(audio_name)
    \/ \E i \in 1..Min(Len(filenames), Len(tms)) : ~ WellFormed(filenames[i])

\* seconds_to_frames raises on one of the values the call converts: the audio
\* duration (lines 34, 93) or the start or duration of a zipped timing (55, 56)
ConversionRaises(filenames, tms, audio_dur) ==
    \/ ~ IsFinite(audio_dur)
    \/ \E i \in 1..Min(Len(filenames), Len(tms)) :
          \/ ~ IsFinite(Get(tms[i], "start_time", IntNum(0)))
          \/ ~ IsFinite(Get(tms[i], "duration", IntNum(3)))

XmlRaised ==
    [status |-> "raise", duration |-> 0, rate |-> Rate, video |-> <<>>, audio |-> <<>>]

\* the sequence duration taken from the end of the last video clip
create_premiere_xml_duration_from_clips(filenames, tms, audio_name, audio_dur) ==
    IF ConversionRaises(filenames, tms, audio_dur) THEN XmlRaised
    ELSE IF ParseRaises(filenames, tms, audio_name) THEN XmlRaised
    ELSE LET n == Min(Len(filenames), Len(tms))
         IN  [status |-> "ok",
              duration |-> IF n = 0 THEN seconds_to_frames(audio_dur)
                           ELSE VideoClip(n, filenames[n], tms[n]).end,
              rate |-> Rate,
              video |-> [i \in 1..n |-> ParsedClip(VideoClip(i, filenames[i], tms[i]))],
              audio |-> [c \in 1..2 |->
                            <<ParsedClip(AudioClip(c, audio_name, audio_dur))>>]]

\* the document as the tree of elements the function builds: the sequence's
\* duration and rate, the clipitems of the one video track, and the audio
\* tracks, each the list of its clipitems.  status is "ok" when a document is
\* returned and "raise" when the call raises: in a conversion to frames
\* while the tree is built, or at line 120 when the text is parsed again.
create_premiere_xml(filenames, tms, audio_name, audio_dur) ==
    IF ConversionRaises(filenames, tms, audio_dur) THEN XmlRaised
    ELSE IF ParseRaises(filenames, tms, audio_name) THEN XmlRaised
    ELSE [status |-> "ok",
          duration |-> seconds_to_frames(audio_dur),
          rate |-> Rate,
          video |-> [i \in 1..Min(Len(filenames), Len(tms)) |->
                         ParsedClip(VideoClip(i, filenames[i], tms[i]))],
          audio |-> [c \in 1..2 |-> <<ParsedClip(AudioClip(c, audio_name, audio_dur))>>]]

----------------------------------------------------------------------------
(* modules/gemini_client.py: generate_fallback_timings *)

\* lines 255-264: the list built from duration_per_panel
EvenTimings(count, duration_per_panel) ==
    [k \in 1..count |->
        [panel |-> IntNum(k),
         start_time |-> Mul(IntNum(k - 1), duration_per_panel),
         duration |-> duration_per_panel]]

\* the duration checked before the panel count
generate_fallback_timings_duration_first(count, duration) ==
    IF LessEq(duration, IntNum(0))
    THEN [status |-> "raise", error |-> "Total duration must be positive", value |-> <<>>]
    ELSE IF count < 1
    THEN [status |-> "raise", error |-> "Panel count must be at least 1", value |-> <<>>]
    ELSE [status |-> "ok", error |-> "",
          value |-> EvenTimings(count, DivInt(duration, count))]

\* the loop counting from 1: entry k starts one slot late
generate_fallback_timings_late(count, duration) ==
    IF count < 1
    THEN [status |-> "raise", error |-> "Panel count must be at least 1", value |-> <<>>]
    ELSE IF LessEq(duration, IntNum(0))
    THEN [status |-> "raise", error |-> "Total duration must be positive", value |-> <<>>]
    ELSE [status |-> "ok", error |-> "",
          value |-> [k \in 1..count |->
              [panel |-> IntNum(k),
               start_time |-> Mul(IntNum(k), DivInt(duration, count)),
               duration |-> DivInt(duration, count)]]]

generate_fallback_timings(count, duration) ==
    IF count < 1
    THEN [status |-> "raise", error |-> "Panel count must be at least 1", value |-> <<>>]
    ELSE IF LessEq(duration, IntNum(0))
    THEN [status |-> "raise", error |-> "Total duration must be positive", value |-> <<>>]
    ELSE [status |-> "ok", error |-> "",
          value |-> EvenTimings(count, DivInt(duration, count))]

----------------------------------------------------------------------------
(* modules/gemini_client.py: analyze_audio_timing *)

\* float(v): [ok, overflow, v]; ok is FALSE when float() raises.  A number
\* stays what it is; the text of a string is read as a decimal numeral and
\* rounded to the nearest float, and "inf" and "nan" are read too.  An int
\* above the range of the floats raises OverflowError (overflow is TRUE);
\* any other failure is a ValueError or a TypeError.
PyFloat(v) ==
    IF v.kind = "num" THEN [ok |-> TRUE, overflow |-> FALSE, v |-> v]
    ELSE IF v.kind = "bigint" THEN [ok |-> FALSE, overflow |-> TRUE, v |-> IntNum(0)]
    ELSE IF v.kind \in {"intstr", "numstr"}
    THEN [ok |-> TRUE, overflow |-> FALSE,
          v |-> IF v.d = 0 THEN [v EXCEPT !.kind = "num"] ELSE Num(v.n, v.d)]
    ELSE [ok |-> FALSE, overflow |-> FALSE, v |-> IntNum(0)]

\* int(v): a number is truncated toward zero; a string must be spelled as
\* an integer, int("2.5"), int("2.0") and int("inf") raise ValueError, and so
\* does int(float("nan")).  int(float("inf")) raises OverflowError: ok is
\* FALSE and overflow is TRUE.  An int, however large, stays what it is.
PyInt(v) ==
    IF v.kind = "bigint" THEN [ok |-> TRUE, overflow |-> FALSE, v |-> v]
    ELSE IF v.kind = "num" /\ IsInf(v)
    THEN [ok |-> FALSE, overflow |-> TRUE, v |-> IntNum(0)]
    ELSE IF v.kind = "num" /\ IsNaN(v)
    THEN [ok |-> FALSE, overflow |-> FALSE, v |-> IntNum(0)]
    ELSE IF v.kind = "num"
    THEN [ok |-> TRUE, overflow |-> FALSE, v |-> IntNum(TruncFloat(v))]
    ELSE IF v.kind = "intstr"
    THEN [ok |-> TRUE, overflow |-> FALSE, v |-> IntNum(v.n)]
    ELSE [ok |-> FALSE, overflow |-> FALSE, v |-> IntNum(0)]

\* A JSON object is a function from its keys to values; any other JSON value
\* met where an object is expected is the function with the one key "scalar".
IsDict(timing) == DOMAIN timing # {"scalar"}

\* What a call of analyze_audio_timing gives: status is "ok" (value is the
\* list returned), "none" (None returned) or "raise"; error is the text of
\* the exception and words the keywords of safe_api_call (app.py 121-126)
\* that the lower-cased text contains.
ReturnNone == [status |-> "none", error |-> "", words |-> {}, value |-> <<>>]
Raise(msg, words) == [status |-> "raise", error |-> msg, words |-> words, value |-> <<>>]
Return(v) == [status |-> "ok", error |-> "", words |-> {}, value |-> v]

\* Texts of the exceptions the library and the file system raise, and for
\* each the keywords among quota, invalid, key and timeout that its
\* lower-cased text contains
CauseTexts == {"connection reset", "429 Quota exceeded", "400 API_KEY_INVALID",
               "request timeout"}

WordsIn(text) ==
    CASE text = "429 Quota exceeded" -> {"quota"}
      [] text = "400 API_KEY_INVALID" -> {"invalid", "key"}
      [] text = "request timeout" -> {"timeout"}
      [] OTHER -> {}

\* str.strip() on a text: it removes the characters for which
\* str.isspace() holds
Whitespace ==
    (9..13) \cup (28..32) \cup {133, 160, 5760} \cup (8192..8202)
    \cup {8232, 8233, 8239, 8287, 12288}

RECURSIVE StripLeft(_)
StripLeft(s) == IF s # <<>> /\ Head(s) \in Whitespace THEN StripLeft(Tail(s)) ELSE s

RECURSIVE StripRight(_)
StripRight(s) ==
    IF s # <<>> /\ s[Len(s)] \in Whitespace THEN StripRight(SubSeq(s, 1, Len(s) - 1)) ELSE s

Strip(s) == StripRight(StripLeft(s))

\* lines 67-77: the input checks raise; "" when they pass.  The script is
\* the sequence of its code points.
InputError(req, count) ==
    IF req.api_key = "" THEN "API key is required"
    ELSE IF req.audio_data = "" THEN "Audio data is required"
    ELSE IF count < 1 THEN "Panel count must be at least 1"
    ELSE IF req.script = <<>> \/ Strip(req.script) = <<>> THEN "Script is required"
    ELSE ""

\* an entry the loop rejects with None, and one that raises
Rejected(timing) == [ok |-> FALSE, error |-> "", timing |-> timing]
Uncaught(timing, msg) == [ok |-> FALSE, error |-> msg, timing |-> timing]

\* lines 201-203 done: the entry with its three fields converted in place
Converted(timing, p, st, du) ==
    [ok |-> TRUE, error |-> "",
     timing |-> [timing EXCEPT !.panel = p.v, !.start_time = st.v, !.duration = du.v]]

\* lines 200-211, p, st and du being what int() and float() gave for the
\* three fields.  The conversions run in the order of lines 201-203 and the
\* first that raises ends the entry: an OverflowError is not caught by
\* line 204 and leaves the function, a ValueError or TypeError returns
\* None; so does a value out of range
CheckEntry(timing, p, st, du) ==
    IF p.overflow THEN Uncaught(timing, "cannot convert float infinity to integer")
    ELSE IF ~ p.ok THEN Rejected(timing)
    ELSE IF st.overflow THEN Uncaught(timing, "int too large to convert to float")
    ELSE IF ~ st.ok THEN Rejected(timing)
    ELSE IF du.overflow THEN Uncaught(timing, "int too large to convert to float")
    ELSE IF ~ du.ok THEN Rejected(timing)
    ELSE IF Less(st.v, IntNum(0)) \/ LessEq(du.v, IntNum(0)) THEN Rejected(timing)
    ELSE Converted(timing, p, st, du)

\* lines 191-211 for one entry: [ok, error, timing], timing with its three
\* fields converted in place; error is the message of an exception that the
\* except clause of line 204 does not catch (OverflowError from int() or
\* float())
ValidateEntry(timing) ==
    IF ~ IsDict(timing) THEN Rejected(timing)
    ELSE IF ~ ({"panel", "start_time", "duration"} \subseteq DOMAIN timing)
    THEN Rejected(timing)
    ELSE CheckEntry(timing, PyInt(timing.panel), PyFloat(timing.start_time),
                    PyFloat(timing.duration))

\* the loop of lines 190-211 from entry i on: the first bad entry returns
\* None, an uncaught exception leaves the function through line 217
RECURSIVE ValidateFrom(_, _)

\* r is what the loop body gave for entry i
ValidateNext(data, i, r) ==
    IF r.error # "" THEN Raise(r.error, {})
    ELSE IF ~ r.ok THEN ReturnNone
    ELSE ValidateFrom([data EXCEPT ![i] = r.timing], i + 1)

ValidateFrom(data, i) ==
    IF i > Len(data) THEN Return(data) ELSE ValidateNext(data, i, ValidateEntry(data[i]))

\* the count policy keeping the last entries instead of the first
ValidateTimingData_keep_last(data, count) ==
    IF Len(data) # count
    THEN IF Len(data) > count
         THEN ValidateFrom(SubSeq(data, Len(data) - count + 1, Len(data)), 1)
         ELSE ReturnNone
    ELSE ValidateFrom(data, 1)

\* the count policy accepting a longer list as it is
ValidateTimingData_no_truncate(data, count) ==
    IF Len(data) < count THEN ReturnNone ELSE ValidateFrom(data, 1)

\* lines 181-213: the count policy, then the entries
ValidateTimingData(data, count) ==
    IF Len(data) # count
    THEN IF Len(data) > count
         THEN ValidateFrom(SubSeq(data, 1, count), 1)
         ELSE ReturnNone
    ELSE ValidateFrom(data, 1)

\* resp is what the calls of the function did: resp.kind is
\*   "configure_error"   genai.configure raised (line 81),
\*   "write_error"       temp_audio.write raised (line 100),
\*   "upload_error"      genai.upload_file raised (line 105),
\*   "generate_error"    model.generate_content raised (line 139),
\*   "no_json"           no [...] in response.text,
\*   "bad_json"          json.loads raised JSONDecodeError,
\*   "not_list"          the JSON value is not a list,
\*   "list"              the JSON value is the list resp.data,
\* and resp.cause is the text of the exception raised.
analyze_audio_timing(req, count, resp) ==
    IF InputError(req, count) # ""
    THEN Raise(InputError(req, count),
               IF InputError(req, count) = "API key is required" THEN {"key"} ELSE {})
    ELSE IF resp.kind = "configure_error"
    THEN Raise("Failed to configure Gemini API: " \o resp.cause, WordsIn(resp.cause))
    ELSE IF resp.kind = "write_error" THEN Raise(resp.cause, WordsIn(resp.cause))
    ELSE IF resp.kind = "upload_error"
    THEN Raise("Failed to upload audio file: " \o resp.cause, WordsIn(resp.cause))
    ELSE IF resp.kind = "generate_error"
    THEN IF "timeout" \in WordsIn(resp.cause)
         THEN Raise("Audio analysis timed out after 60 seconds", {})
         ELSE IF "quota" \in WordsIn(resp.cause)
         THEN Raise("API quota exceeded. Please check your Gemini API quota.", {"quota"})
         ELSE Raise("Audio analysis failed: " \o resp.cause, WordsIn(resp.cause))
    ELSE IF resp.kind \in {"no_json", "bad_json", "not_list"} THEN ReturnNone
    ELSE ValidateTimingData(resp.data, count)

\* no temporary file has been made
NoTempFile == [created |-> FALSE, written |-> FALSE, unlink_raised |-> FALSE, exists |-> FALSE]

\* the temporary file removed on the paths that return and left on those
\* that raise
TempAudioFile_removed_on_return(req, count, resp, unlink_fails) ==
    IF InputError(req, count) # "" \/ resp.kind = "configure_error"
    THEN NoTempFile
    ELSE IF resp.kind = "write_error"
    THEN [created |-> TRUE, written |-> FALSE, unlink_raised |-> FALSE, exists |-> TRUE]
    ELSE IF analyze_audio_timing(req, count, resp).status = "raise"
    THEN [created |-> TRUE, written |-> TRUE, unlink_raised |-> FALSE, exists |-> TRUE]
    ELSE [created |-> TRUE, written |-> TRUE, unlink_raised |-> unlink_fails,
          exists |-> unlink_fails]

\* lines 96-101 and 219-225: what the call leaves of its temporary file.
\* None is made when lines 67-83 raise.  NamedTemporaryFile(delete=False)
\* creates it; when the write of line 100 raises, temp_audio_path is still
\* None at line 221 and the file stays.  Otherwise every path, returning or
\* raising, passes the finally block, which calls os.unlink and ignores an
\* exception of it (unlink_fails: os.unlink raised).
TempAudioFile(req, count, resp, unlink_fails) ==
    IF InputError(req, count) # "" \/ resp.kind = "configure_error"
    THEN NoTempFile
    ELSE IF resp.kind = "write_error"
    THEN [created |-> TRUE, written |-> FALSE, unlink_raised |-> FALSE, exists |-> TRUE]
    ELSE [created |-> TRUE, written |-> TRUE, unlink_raised |-> unlink_fails,
          exists |-> unlink_fails]

----------------------------------------------------------------------------
(* Values the variables hold while the operation that sets them has not run *)

NoCall == [status |-> "pending", error |-> "", value |-> <<>>]
NoResponse == [kind |-> "none", data |-> <<>>, cause |-> ""]
NoXml == [status |-> "pending", duration |-> 0, rate |-> Rate, video |-> <<>>, audio |-> <<>>]
Zero == IntNum(0)
GoodRequest == [api_key |-> "AIzaSy-key", audio_data |-> "bytes",
                script |-> Chars("Panel 1: Hi")]

\* t ticks of a quarter of a second, in seconds
Ticks(t) == Num(t, 4)

\* app.py:446  filename = f"panel_{i+1:03d}.jpg"
PanelFileNames ==
    <<Chars("panel_001.jpg"), Chars("panel_002.jpg"), Chars("panel_003.jpg"),
      Chars("panel_004.jpg"), Chars("panel_005.jpg"), Chars("panel_006.jpg"),
      Chars("panel_007.jpg"), Chars("panel_008.jpg")>>
PanelFileName(i) == PanelFileNames[i]

\* the name of an audio file: voice.mp3
AudioFileName == Chars("voice.mp3")

NoZip == [built |-> FALSE, xml |-> NoXml, images |-> <<>>, audio |-> <<>>]

\* The handler's position and locals.  at is "idle" when no run is under
\* way and "stopped" when the last run was stopped before its end; i is the
\* index of the next panel, remove_text and duration the values of the
\* checkbox and of the fallback slider, images the list processed_images.
NoRun == [at |-> "idle", i |-> 0, remove_text |-> FALSE, duration |-> IntNum(0),
          images |-> <<>>]

\* app.py:131-141, 240-244: the session state of a fresh session
AppIdle ==
    /\ uploaded_files = <<>>
    /\ uploaded_panels_list = <<>>
    /\ panels_order_reversed = FALSE
    /\ processed_images_cache = <<>>
    /\ processing_complete = FALSE
    /\ zip_data = NoZip
    /\ session_timings = <<>>
    /\ messages = {}
    /\ run = NoRun

----------------------------------------------------------------------------
(* app.py: the "Process & Generate XML" handler *)

\* lines 116-129: [value, error]; error is "" when func returned, otherwise
\* the warning chosen from the lower-cased text of the exception, in this
\* order: "quota" when it contains quota, "invalid_key" when it contains
\* invalid and key, "timeout" when it contains timeout, else "api_error"
\* ("Audio analysis timed out after 60 seconds" does not contain timeout)
safe_api_call(r) ==
    IF r.status = "raise"
    THEN [value |-> ReturnNone,
          error |-> IF "quota" \in r.words THEN "quota"
                    ELSE IF {"invalid", "key"} \subseteq r.words THEN "invalid_key"
                    ELSE IF "timeout" \in r.words THEN "timeout"
                    ELSE "api_error"]
    ELSE [value |-> r, error |-> ""]

\* the bytes of a panel image: the upload itself, or what
\* process_image_to_bytes made of it under the remove_text setting
OriginalBytes(name) == [source |-> name, processed |-> FALSE, remove_text |-> FALSE]
ProcessedBytes(name, rt) == [source |-> name, processed |-> TRUE, remove_text |-> rt]

\* line 402 left out: the flag stays as the run before left it
FlagAtClick_kept(flag) == flag

\* line 402: st.session_state.processing_complete = False
FlagAtClick(flag) == FALSE

\* one pass of the panel loop caching whatever the run uses for the panel,
\* the original bytes of a failed call included
ProcessPanel_cache_any(panels, remove_text, outcome, i, acc) ==
    LET cache_key == [name |-> panels[i], remove_text |-> remove_text]
        filename == PanelFileName(i)
    IN  IF cache_key \in DOMAIN acc.cache
        THEN [acc EXCEPT !.images =
                 Append(@, [filename |-> filename, data |-> acc.cache[cache_key]])]
        ELSE IF outcome = "exception"
        THEN [acc EXCEPT !.msgs = @ \cup {"panel_exception"}]
        ELSE IF outcome = "api_error"
        THEN [acc EXCEPT
                 !.msgs = @ \cup {"panel_error"},
                 !.cache = (cache_key :> OriginalBytes(panels[i])) @@ @,
                 !.images = Append(@, [filename |-> filename,
                                       data |-> OriginalBytes(panels[i])])]
        ELSE [acc EXCEPT
                 !.cache = (cache_key :> ProcessedBytes(panels[i], remove_text)) @@ @,
                 !.images = Append(@, [filename |-> filename,
                                       data |-> ProcessedBytes(panels[i], remove_text)])]

\* lines 417-456: one pass of the panel loop, for panel i.  outcome is what
\* happens when panel i is not in the cache: "ok" (process_image_to_bytes
\* returned), "api_error" (it raised, caught by safe_api_call) or
\* "exception" (panel.read() raised: the panel is skipped).
\* acc = [images, cache, msgs].
ProcessPanel(panels, remove_text, outcome, i, acc) ==
    LET cache_key == [name |-> panels[i], remove_text |-> remove_text]
        filename == PanelFileName(i)
    IN  IF cache_key \in DOMAIN acc.cache
        THEN [acc EXCEPT !.images =
                 Append(@, [filename |-> filename, data |-> acc.cache[cache_key]])]
        ELSE IF outcome = "exception"
        THEN [acc EXCEPT !.msgs = @ \cup {"panel_exception"}]
        ELSE IF outcome = "api_error"
        THEN [acc EXCEPT
                 !.msgs = @ \cup {"panel_error"},
                 !.images = Append(@, [filename |-> filename,
                                       data |-> OriginalBytes(panels[i])])]
        ELSE [acc EXCEPT
                 !.cache = (cache_key :> ProcessedBytes(panels[i], remove_text)) @@ @,
                 !.images = Append(@, [filename |-> filename,
                                       data |-> ProcessedBytes(panels[i], remove_text)])]

\* the run going on without the check that an image was processed
AfterPanels_no_image_guard(images) == "analysis"

\* lines 458-459: where the run goes after the panel loop
AfterPanels(images) == IF images = <<>> THEN "failing" ELSE "analysis"

\* start_time + duration of one timing (line 508)
EndOf(timing) ==
    Add(Get(timing, "start_time", IntNum(0)), Get(timing, "duration", IntNum(0)))

\* max() keeps the value it holds unless the next one compares greater
Greater(best, next) == IF Less(best, next) THEN next ELSE best

\* lines 507-510: max() over the ends from entry i on, left to right: the
\* running maximum gives way only to an end that compares greater, so a nan
\* stays when it comes first and is passed over when it comes later
RECURSIVE MaxFrom(_, _, _)
MaxFrom(tms, i, best) ==
    IF i > Len(tms) THEN best ELSE MaxFrom(tms, i + 1, Greater(best, EndOf(tms[i])))

MaxEnd(tms) == MaxFrom(tms, 2, EndOf(tms[1]))

AudioDurationOf(tms) == IF tms = <<>> THEN IntNum(30) ELSE MaxEnd(tms)

\* lines 486-493 and what step 2 leaves: result is what
\* analyze_audio_timing did, warning the text safe_api_call chose, fb the
\* fallback timings of fb_duration seconds
Step2Outcome(result, warning, ai, use_fallback, fb_duration, fb) ==
    [analysis |-> result,
     warning |-> warning,
     use_fallback |-> use_fallback,
     total_duration |-> IF use_fallback THEN fb_duration ELSE Zero,
     fallback |-> IF use_fallback THEN fb ELSE NoCall,
     timings |-> IF use_fallback THEN fb.value ELSE ai.value,
     raised |-> use_fallback /\ fb.status # "ok"]

\* lines 489-490: the fallback timings for the slider's value
Step2Fallback(names, result, warning, ai, use_fallback, fb_duration) ==
    Step2Outcome(result, warning, ai, use_fallback, fb_duration,
                 generate_fallback_timings(Len(names), fb_duration))

\* the fallback taken only when safe_api_call reported an error
Step2Timings_only_on_error(names, fallback_panel_duration, result, called) ==
    Step2Fallback(names, result, called.error,
                  IF called.error # "" THEN ReturnNone ELSE called.value,
                  called.error # "",
                  Mul(IntNum(Len(names)), fallback_panel_duration))

\* lines 480-487: timings is None after an error, and the fallback is
\* taken when timings is None
Step2Timed(names, fallback_panel_duration, result, warning, ai) ==
    Step2Fallback(names, result, warning, ai, ai.status # "ok",
                  Mul(IntNum(Len(names)), fallback_panel_duration))

Step2Timings(names, fallback_panel_duration, result, called) ==
    Step2Timed(names, fallback_panel_duration, result, called.error,
               IF called.error # "" THEN ReturnNone ELSE called.value)

\* lines 471-478: the call through safe_api_call
Step2Called(names, fallback_panel_duration, result) ==
    Step2Timings(names, fallback_panel_duration, result, safe_api_call(result))

\* lines 466-500, step 2: the analysis through safe_api_call (warning is the
\* warning it chose, "" for none), and the fallback when it gave no
\* timings.  raised: generate_fallback_timings raised at line 490 and again
\* at line 499.
AnalyzeStep(names, fallback_panel_duration, resp) ==
    Step2Called(names, fallback_panel_duration,
                analyze_audio_timing(GoodRequest, Len(names), resp))

\* lines 512-517: the document for the duration of line 507
XmlFor(names, tms, audio_name, audio_dur) ==
    [audio_duration |-> audio_dur,
     xml |-> create_premiere_xml(names, tms, audio_name, audio_dur)]

\* lines 505-517, step 3: the sequence duration and the document
XmlStep(names, tms, audio_name) == XmlFor(names, tms, audio_name, AudioDurationOf(tms))

\* the run going on to the archive with whatever step 3 left when the
\* serializer raised
AfterXml_degraded_document(document) == "xml"

\* lines 519-524: where the run goes after step 3
AfterXml(document) == IF document.status = "ok" THEN "xml" ELSE "xml_raised"

----------------------------------------------------------------------------
(* SpecFallback: generate_fallback_timings on every (panel_count,          *)
(* total_duration) of the bounds, then the serializer on its result with   *)
(* audio_duration = total_duration.                                        *)

InitFallback ==
    /\ pc = "start"
    /\ request = GoodRequest
    /\ panel_count \in (-1)..MaxPanels
    /\ total_duration \in {Ticks(t) : t \in (-1)..MaxTicks}
    /\ fallback = NoCall
    /\ response = NoResponse
    /\ analysis = NoCall
    /\ image_filenames = <<>>
    /\ timings = <<>>
    /\ audio_filename = AudioFileName
    /\ audio_duration = Zero
    /\ xml = NoXml
    /\ temp_audio = NoTempFile
    /\ AppIdle

CallFallback ==
    /\ pc = "start"
    /\ fallback' = generate_fallback_timings(panel_count, total_duration)
    /\ pc' = "fallback_done"
    /\ UNCHANGED <<request, panel_count, total_duration, response, analysis,
                   image_filenames, timings, audio_filename, audio_duration, xml>>
    /\ UNCHANGED <<temp_audio, appVars>>

SerializeFallback ==
    /\ pc = "fallback_done"
    /\ fallback.status = "ok"
    /\ image_filenames' = [i \in 1..panel_count |-> PanelFileName(i)]
    /\ timings' = fallback.value
    /\ audio_duration' = total_duration
    /\ xml' = create_premiere_xml(image_filenames', timings', audio_filename,
                                  audio_duration')
    /\ pc' = "xml_done"
    /\ UNCHANGED <<request, audio_filename, panel_count, total_duration, fallback,
                   response, analysis>>
    /\ UNCHANGED <<temp_audio, appVars>>

NextFallback == CallFallback \/ SerializeFallback

SpecFallback == InitFallback /\ [][NextFallback]_vars

----------------------------------------------------------------------------
(* Claims about generate_fallback_timings (SpecFallback) *)

\* the durations from entry i on added to acc one after the other
RECURSIVE SumFrom(_, _, _)
SumFrom(tms, i, acc) ==
    IF i > Len(tms) THEN acc
    ELSE SumFrom(tms, i + 1, Add(acc, tms[i].duration))

SumDurations(tms) == SumFrom(tms, 1, Zero)

\* the float x is the rational n/d to within ulps units of the last place
Within(x, n, d, ulps) ==
    /\ IsNum(x) /\ IsFinite(x)
    /\ <<x.n, x.d>> = Rat(n, d)
    /\ Abs(x.en) <= ulps * x.ed

ValidFallbackArgs == panel_count >= 1 /\ Less(Zero, total_duration)

\* C1: for N >= 1 and D > 0 generate_fallback_timings(N, D) returns exactly N
\* entries numbered 1..N; entry i (0-based) starts at i*D/N and lasts D/N, so
\* the first starts at 0, each start is the previous start + duration, and the
\* durations sum to D.  The values are floats: D/N is the float nearest to
\* the quotient, a start is within one unit of the last place of i*D/N, and
\* the sums are the sums float addition gives.
C1_FallbackEvenSplit ==
    (pc # "start" /\ ValidFallbackArgs) =>
        /\ fallback.status = "ok"
        /\ Len(fallback.value) = panel_count
        /\ \A k \in 1..panel_count :
              /\ DOMAIN fallback.value[k] = {"panel", "start_time", "duration"}
              /\ fallback.value[k].panel = IntNum(k)
              /\ Within(fallback.value[k].start_time,
                        (k - 1) * total_duration.n, total_duration.d * panel_count, 1)
              /\ fallback.value[k].duration =
                    Num(total_duration.n, total_duration.d * panel_count)
        /\ fallback.value[1].start_time = Zero
        /\ \A k \in 2..panel_count :
              fallback.value[k].start_time =
                  Add(fallback.value[k - 1].start_time, fallback.value[k - 1].duration)
        /\ SumDurations(fallback.value) = total_duration

\* 1.25 s over three panels: 5/12 s each, which no float holds exactly
C1_Witness ==
    /\ pc = "fallback_done"
    /\ panel_count = 3
    /\ total_duration = Ticks(5)
    /\ fallback.status = "ok"
    /\ Within(fallback.value[3].start_time, 5, 6, 1)
    /\ fallback.value[3].duration = DivInt(Ticks(5), 3)
    /\ fallback.value[3].duration.en # 0

\* C7: with fallback timings for (N, D) and audio_duration = D, the end frame
\* of the last video clip is at most the sequence's declared duration.
C7_LastClipWithinSequence ==
    pc = "xml_done" => xml.video[Len(xml.video)].end <= xml.duration

\* C14: generate_fallback_timings raises and returns no sequence whenever
\* panel_count < 1 or total_duration <= 0, and when both are invalid the
\* error is the one about the panel count.
C14_FallbackRejectsInvalidArguments ==
    (pc # "start" /\ ~ ValidFallbackArgs) =>
        /\ fallback.status = "raise"
        /\ fallback.value = <<>>
        /\ fallback.error = IF panel_count < 1 THEN "Panel count must be at least 1"
                                               ELSE "Total duration must be positive"

\* no panel and a negative duration: the panel-count error
C14_Witness ==
    /\ pc = "fallback_done"
    /\ panel_count = 0
    /\ total_duration = Ticks(-1)
    /\ fallback.status = "raise"
    /\ fallback.error = "Panel count must be at least 1"

\* C19: fallback timings for N = 3 and D = 9.0 s are (0,3), (3,3), (6,3) and
\* clip 2 runs from frame 90 to frame 180; whenever 30*D/N is an integer f,
\* clip i of the serialized fallback timeline runs from (i-1)*f to i*f.
C19_WholeFrameFallbackClips ==
    pc = "xml_done" =>
        /\ (panel_count = 3 /\ total_duration = IntNum(9)) =>
              /\ timings = [k \in 1..3 |->
                               [panel |-> IntNum(k), start_time |-> IntNum(3 * (k - 1)),
                                duration |-> IntNum(3)]]
              /\ xml.video[2].start = 90
              /\ xml.video[2].end = 180
        /\ (FPS * total_duration.n) % (total_duration.d * panel_count) = 0 =>
              LET f == (FPS * total_duration.n) \div (total_duration.d * panel_count)
              IN  /\ Len(xml.video) = panel_count
                  /\ \A i \in 1..panel_count :
                        /\ xml.video[i].start = (i - 1) * f
                        /\ xml.video[i].end = i * f

\* the scenario itself: three panels over nine seconds
C19_Witness ==
    /\ pc = "xml_done"
    /\ panel_count = 3
    /\ total_duration = IntNum(9)
    /\ Len(xml.video) = 3
    /\ xml.video[2].start = 90
    /\ xml.video[2].end = 180
    /\ xml.video[3].end = 270

\* C22: for fallback-generated timings, consecutive video clips neither
\* overlap nor leave a gap: for every N and D and every i < N, the end frame
\* of clip i (start frame + duration frames) is the start frame of clip i+1.
C22_FallbackClipsAdjacent ==
    (pc = "xml_done" /\ xml.status = "ok") =>
        \A i \in 1..(Len(xml.video) - 1) : xml.video[i].end = xml.video[i + 1].start

----------------------------------------------------------------------------
(* SpecXml: create_premiere_xml called directly on every image list,       *)
(* timing list and audio duration of the bounds.                           *)

\* all sequences over S of length at most n
SeqsUpTo(S, n) == UNION {[1..k -> S] : k \in 0..n}

ImageNames == {Chars("a.jpg"), Chars("b.jpg")}

\* image lists with a name that holds a character XML 1.0 does not allow
\* ("a\x0b.jpg") or a carriage return
OddImageLists == {<<<<97, 11, 46, 106, 112, 103>>>>,
                  <<Chars("c\rd.jpg"), Chars("a.jpg")>>}

\* audio names: voice.mp3, "voi\x01ce.mp3" and one with a carriage return
\* before a line feed
AudioNames == {AudioFileName,
               <<118, 111, 105, 1, 99, 101, 46, 109, 112, 51>>,
               Chars("voi\r\nce.mp3")}

\* the image lists and audio names of the calls: every list of plain names
\* with the plain audio name, and the odd names in every combination
NamePairs ==
    {<<names, AudioFileName>> : names \in SeqsUpTo(ImageNames, MaxImages)}
    \cup ((OddImageLists \cup {<<Chars("a.jpg")>>}) \X AudioNames)

\* timing dictionaries as the serializer reads them: start_time and duration
\* in quarter seconds or 2.05 s, a key may be absent (dict.get supplies the default),
\* and a dictionary may carry keys the serializer never reads
XmlEntries ==
    {[start_time |-> Ticks(s), duration |-> Ticks(d)] : s \in {0, 1, 3}, d \in {1, 2, 3}}
    \cup {[duration |-> Ticks(2)],
          [start_time |-> Ticks(1)],
          [start_time |-> Ticks(1), duration |-> Ticks(1), end_time |-> Ticks(7)],
          [start_time |-> Num(41, 20), duration |-> Num(41, 20)]}

\* 2.05 s is a float just below 41/20: times 30 it is 61.49999999999999
XmlAudioDurations == {Ticks(2), Ticks(3), Ticks(5), Num(41, 20)}

InitXml ==
    /\ pc = "start"
    /\ request = GoodRequest
    /\ panel_count = 0
    /\ total_duration = Zero
    /\ fallback = NoCall
    /\ response = NoResponse
    /\ analysis = NoCall
    /\ \E pair \in NamePairs :
          /\ image_filenames = pair[1]
          /\ audio_filename = pair[2]
    /\ timings \in SeqsUpTo(XmlEntries, MaxTimings)
    /\ audio_duration \in XmlAudioDurations
    /\ xml = NoXml
    /\ temp_audio = NoTempFile
    /\ AppIdle

CallCreateXml ==
    /\ pc = "start"
    /\ xml' = create_premiere_xml(image_filenames, timings, audio_filename, audio_duration)
    /\ pc' = "xml_done"
    /\ UNCHANGED <<request, panel_count, total_duration, fallback, response, analysis,
                   image_filenames, timings, audio_filename, audio_duration>>
    /\ UNCHANGED <<temp_audio, appVars>>

NextXml == CallCreateXml

SpecXml == InitXml /\ [][NextXml]_vars

----------------------------------------------------------------------------
(* Claims about create_premiere_xml (SpecXml) *)

\* C5: called with an image list and a timing list of different lengths,
\* create_premiere_xml raises instead of returning a document.
C5_MismatchedLengthsRaise ==
    (pc = "xml_done" /\ Len(image_filenames) # Len(timings)) => xml.status = "raise"

\* C6: called with an empty image list, create_premiere_xml fails with an
\* error; it never returns a document whose video track has zero clips.
C6_EmptyImageListRaises ==
    (pc = "xml_done" /\ image_filenames = <<>>) =>
        (xml.status = "raise" /\ ~ (xml.status = "ok" /\ Len(xml.video) = 0))

\* the time values the serializer converted for clip i
ClipStart(i) == Get(timings[i], "start_time", IntNum(0))
ClipDuration(i) == Get(timings[i], "duration", IntNum(3))

\* round(seconds * 30) as the claims mean it: the product, a float, rounded
\* to the nearest integer, a tie going to the even one
FramesOf(seconds) == RoundFloat(Mul(seconds, IntNum(FPS)))

\* the same with a tie going to the larger integer
HalfUpFrames(seconds) ==
    LET product == Mul(seconds, IntNum(FPS))
    IN  IF product.en # 0 THEN RoundFloat(product)
        ELSE RoundHalfUp(product.n, product.d)

\* C8: every time value is converted to frames as round(seconds * 30) with
\* round-half-up (k + 0.5 goes to k + 1 for even and odd k alike), the same
\* rule for every start, duration and audio-duration value of the document.
C8_RoundHalfUpEverywhere ==
    pc = "xml_done" =>
        /\ xml.duration = HalfUpFrames(audio_duration)
        /\ \A c \in 1..2 :
              xml.audio[c][1].duration = HalfUpFrames(audio_duration)
        /\ \A i \in 1..Len(xml.video) :
              /\ xml.video[i].start = HalfUpFrames(ClipStart(i))
              /\ xml.video[i].out = HalfUpFrames(ClipDuration(i))

\* C9: for every video clip the start frame is the frame conversion of
\* start_seconds and the end frame is the frame conversion of end_seconds =
\* start_seconds + duration_seconds, derived from the entry.
C9_EndFrameFromEndSeconds ==
    pc = "xml_done" =>
        \A i \in 1..Len(xml.video) :
            /\ xml.video[i].start = FramesOf(ClipStart(i))
            /\ LET end_seconds == Add(ClipStart(i), ClipDuration(i))
               IN  xml.video[i].end = FramesOf(end_seconds)

\* C10: every video clip has in-point 0 and out-point equal to the frame
\* conversion of its duration, and out - in = end - start.
C10_InOutMatchesSpan ==
    pc = "xml_done" =>
        \A i \in 1..Len(xml.video) :
            /\ xml.video[i].in = 0
            /\ xml.video[i].out = FramesOf(ClipDuration(i))
            /\ xml.video[i].out - xml.video[i].in = xml.video[i].end - xml.video[i].start

\* a document of two clips whose second clip starts and lasts a quarter of
\* a second: 7.5 frames each, 15 frames together
C10_Witness ==
    /\ pc = "xml_done"
    /\ Len(xml.video) = 2
    /\ ClipStart(2) = Ticks(1)
    /\ ClipDuration(2) = Ticks(1)
    /\ xml.video[2].out = 8
    /\ xml.video[2].end = 16

\* timing lists to compare a call with: none, one entry, two entries, an
\* entry without a duration and one of 2.05 s
AlternativeTimings ==
    {<<>>,
     <<[start_time |-> Ticks(3), duration |-> Ticks(3)]>>,
     <<[start_time |-> Ticks(0), duration |-> Ticks(1)],
       [start_time |-> Ticks(1), duration |-> Ticks(2)]>>,
     <<[start_time |-> Ticks(1)]>>,
     <<[start_time |-> Num(41, 20), duration |-> Num(41, 20)]>>}

\* the document of the same call with another timing list
WithTimings(other) ==
    create_premiere_xml(image_filenames, other, audio_filename, audio_duration)

\* C11: the declared duration of the sequence is round(audio_duration * 30)
\* in every document the call returns, and is the same in the document of
\* every timing list the call could have been given with the same audio
\* duration.
C11_SequenceDurationFromAudio ==
    (pc = "xml_done" /\ xml.status = "ok") =>
        /\ xml.duration = FramesOf(audio_duration)
        /\ \A other \in AlternativeTimings :
              \A document \in {WithTimings(other)} :
                  document.status = "ok" => document.duration = xml.duration

\* two clips that end at frame 22 + 15 = 37 in a sequence of 0.75 s: the
\* declared duration is round(22.5) = 22
C11_Witness ==
    /\ pc = "xml_done"
    /\ xml.status = "ok"
    /\ Len(xml.video) = 2
    /\ \A other \in AlternativeTimings : WithTimings(other).duration = 22
    /\ audio_duration = Ticks(3)
    /\ xml.duration = 22
    /\ xml.video[2].end = 37

\* C12: every document has exactly two audio tracks of one clip each; both
\* clips carry the audio filename the call was given as name and as
\* pathurl, start = 0, in = 0 and end = out = duration =
\* round(audio_duration * 30).
C12_TwoAudioTracksOneClipEach ==
    (pc = "xml_done" /\ xml.status = "ok") =>
        /\ Len(xml.audio) = 2
        /\ \A c \in 1..2 :
              /\ Len(xml.audio[c]) = 1
              /\ xml.audio[c][1].name = audio_filename
              /\ xml.audio[c][1].pathurl = audio_filename
              /\ xml.audio[c][1].file_name = audio_filename
              /\ xml.audio[c][1].start = 0
              /\ xml.audio[c][1].in = 0
              /\ xml.audio[c][1].end = FramesOf(audio_duration)
              /\ xml.audio[c][1].out = xml.audio[c][1].end
              /\ xml.audio[c][1].duration = xml.audio[c][1].end

\* C13: for N images and N timings the video track holds exactly N
\* clipitems in the order of image_filenames; clipitem i has name, duration,
\* rate, start, end, in, out and a file reference whose name and pathurl are
\* image_filenames[i] unchanged, and its frames come from timing entry i.
C13_OneClipPerImageInOrder ==
    (pc = "xml_done" /\ xml.status = "ok" /\ Len(image_filenames) = Len(timings)) =>
        /\ Len(xml.video) = Len(image_filenames)
        /\ \A i \in 1..Len(image_filenames) :
              /\ {"name", "duration", "rate", "start", "end", "in", "out",
                  "file_name", "pathurl"} \subseteq DOMAIN xml.video[i]
              /\ xml.video[i].id = i
              /\ xml.video[i].name = image_filenames[i]
              /\ xml.video[i].file_name = image_filenames[i]
              /\ xml.video[i].pathurl = image_filenames[i]
              /\ xml.video[i].rate = [timebase |-> "30", ntsc |-> "FALSE"]
              /\ xml.video[i].start = FramesOf(ClipStart(i))
              /\ xml.video[i].out = FramesOf(ClipDuration(i))
              /\ xml.video[i].end = xml.video[i].start + xml.video[i].out
              /\ xml.video[i].duration = xml.video[i].out + 1000

----------------------------------------------------------------------------
(* SpecNormalizer: analyze_audio_timing on every reply of the bounds.      *)

\* entries the validation accepts: numbers, numerals in strings ("2", "0.5",
\* "2.05"), a float panel number, a panel number above the range of the
\* floats, an infinite duration (the JSON literal 1e999) and a duration that
\* is not a number (the JSON literal NaN)
GoodEntries ==
    {[panel |-> Huge, start_time |-> Ticks(1), duration |-> Ticks(2)],
     [panel |-> IntNum(1), start_time |-> Ticks(0), duration |-> Ticks(2)],
     [panel |-> IntNum(7), start_time |-> Ticks(3), duration |-> Ticks(1)],
     [panel |-> IntStr(2), start_time |-> NumStr(1, 2), duration |-> NumStr(41, 20)],
     [panel |-> Num(5, 2), start_time |-> Ticks(2), duration |-> Ticks(6)],
     [panel |-> IntNum(2), start_time |-> Ticks(1), duration |-> Inf],
     [panel |-> IntNum(1), start_time |-> Ticks(0), duration |-> NaN]}

\* entries with one defect each; the panel "2.0" is a numeral int() refuses,
\* the panel 1e999 a float int() cannot convert and the start and the
\* duration of 1 followed by 400 zeros ints float() cannot convert
BadEntries ==
    {[panel |-> IntNum(1), start_time |-> Huge, duration |-> Ticks(2)],
     [panel |-> Str, start_time |-> Ticks(0), duration |-> Huge],
     [start_time |-> Ticks(0), duration |-> Ticks(2)],
     [panel |-> IntNum(1), duration |-> Ticks(2)],
     [panel |-> IntNum(1), start_time |-> Ticks(0)],
     [panel |-> IntNum(1), start_time |-> Ticks(-1), duration |-> Ticks(2)],
     [panel |-> IntNum(1), start_time |-> Ticks(0), duration |-> Ticks(0)],
     [panel |-> IntNum(1), start_time |-> Ticks(0), duration |-> IntNum(-1)],
     [panel |-> IntNum(1), start_time |-> Str, duration |-> Ticks(2)],
     [panel |-> IntNum(1), start_time |-> Ticks(0), duration |-> Null],
     [panel |-> Str, start_time |-> Ticks(0), duration |-> Ticks(2)],
     [panel |-> NumStr(2, 1), start_time |-> Ticks(0), duration |-> Ticks(2)],
     [panel |-> IntNum(1), start_time |-> Ticks(0), duration |-> NegInf],
     [panel |-> Inf, start_time |-> Ticks(0), duration |-> Ticks(2)],
     [scalar |-> IntNum(3)]}

RawEntries == GoodEntries \cup BadEntries

RaisedReplies ==
    {[kind |-> k, data |-> <<>>, cause |-> c] :
        k \in {"configure_error", "write_error", "upload_error", "generate_error"},
        c \in CauseTexts}

FailedReplies ==
    RaisedReplies
    \cup {[kind |-> k, data |-> <<>>, cause |-> ""] : k \in {"no_json", "bad_json", "not_list"}}

ListReplies ==
    {[kind |-> "list", data |-> d, cause |-> ""] : d \in SeqsUpTo(RawEntries, MaxRaw)}

\* requests with one input missing; a script of blanks counts as missing
BadRequests ==
    {[GoodRequest EXCEPT !.api_key = ""],
     [GoodRequest EXCEPT !.audio_data = ""],
     [GoodRequest EXCEPT !.script = <<>>],
     [GoodRequest EXCEPT !.script = Chars(" \n ")],
     [GoodRequest EXCEPT !.script = Chars("\r\n")],
     [GoodRequest EXCEPT !.script = <<160, 11>>]}

InitNormalizer ==
    /\ pc = "start"
    /\ \/ request = GoodRequest /\ response \in FailedReplies \cup ListReplies
       \/ request \in BadRequests /\ response \in FailedReplies
    /\ panel_count \in 0..MaxRaw
    /\ total_duration = Zero
    /\ fallback = NoCall
    /\ analysis = NoCall
    /\ image_filenames = <<>>
    /\ timings = <<>>
    /\ audio_filename = AudioFileName
    /\ audio_duration = Zero
    /\ xml = NoXml
    /\ temp_audio = NoTempFile
    /\ AppIdle

CallAnalyze ==
    /\ pc = "start"
    /\ analysis' = analyze_audio_timing(request, panel_count, response)
    /\ \E unlink_fails \in BOOLEAN :
          temp_audio' = TempAudioFile(request, panel_count, response, unlink_fails)
    /\ pc' = "analysis_done"
    /\ UNCHANGED <<request, panel_count, total_duration, fallback, response,
                   image_filenames, timings, audio_filename, audio_duration, xml>>
    /\ UNCHANGED appVars

NextNormalizer == CallAnalyze

SpecNormalizer == InitNormalizer /\ [][NextNormalizer]_vars

----------------------------------------------------------------------------
(* Claims about the timing validation (SpecNormalizer) *)

\* the call got as far as the validation of a JSON list
ValidationRan ==
    /\ pc = "analysis_done"
    /\ request = GoodRequest
    /\ panel_count >= 1
    /\ response.kind = "list"

HasFields(e) == {"panel", "start_time", "duration"} \subseteq DOMAIN e

\* the text or number v denotes a number
Numeric(v) == v.kind \in {"num", "bigint", "intstr", "numstr"}

\* float() accepts v: a float, an int within the range of the floats, or a
\* string that spells a number
FloatNumeral(v) == v.kind \in {"num", "intstr", "numstr"}

\* the number v denotes: itself, or the float nearest to the numeral
ValueOf(v) ==
    IF v.kind = "num" \/ v.d = 0 THEN [v EXCEPT !.kind = "num"] ELSE Num(v.n, v.d)

\* int() accepts v: a finite number, or a string spelled as an integer
WholeNumeral(v) == (v.kind = "num" /\ v.d # 0) \/ v.kind \in {"bigint", "intstr"}

\* an object with a missing field, a non-numeric field, a negative start or
\* a non-positive duration
InvalidEntry(e) ==
    /\ IsDict(e)
    /\ \/ ~ HasFields(e)
       \/ ~ Numeric(e.panel)
       \/ ~ Numeric(e.start_time)
       \/ ~ Numeric(e.duration)
       \/ Less(ValueOf(e.start_time), Zero)
       \/ LessEq(ValueOf(e.duration), Zero)

\* an object with the three fields, start >= 0 and duration > 0 (nan is
\* neither)
FieldsInRange(e) ==
    /\ IsDict(e)
    /\ HasFields(e)
    /\ Numeric(e.start_time)
    /\ Numeric(e.duration)
    /\ LessEq(Zero, ValueOf(e.start_time))
    /\ Less(Zero, ValueOf(e.duration))

\* such an object whose three values the conversions accept: int() the
\* panel, float() the start and the duration
ValidEntry(e) ==
    /\ FieldsInRange(e)
    /\ WholeNumeral(e.panel)
    /\ FloatNumeral(e.start_time)
    /\ FloatNumeral(e.duration)

\* C2: the validation returns None for every list with fewer than N
\* entries or with an entry anywhere in the list that has a negative start,
\* a non-positive duration, a missing field or a non-numeric field,
\* whatever the other entries are.
C2_InvalidAnywhereGivesNone ==
    (/\ ValidationRan
     /\ \/ Len(response.data) < panel_count
        \/ \E i \in 1..Len(response.data) : InvalidEntry(response.data[i]))
    => analysis = ReturnNone

\* the float x is the number the raw value v denotes: the same rational to
\* within half a unit of the last place, or the same infinity
SameNumber(x, v) ==
    /\ x.kind = "num"
    /\ x.n = v.n
    /\ x.d = v.d
    /\ 2 * Abs(x.en) <= x.ed
    /\ v.kind = "num" => x = v

\* C3 as stated: for a list of length >= N whose entries all have the three
\* fields with start >= 0 and duration > 0, the validation returns exactly
\* the first N entries, in order, start and duration values unchanged.
C3_FieldsInRangeGiveFirstN ==
    (/\ ValidationRan
     /\ Len(response.data) >= panel_count
     /\ \A i \in 1..Len(response.data) : FieldsInRange(response.data[i]))
    => /\ analysis.status = "ok"
       /\ Len(analysis.value) = panel_count
       /\ \A i \in 1..panel_count :
             /\ SameNumber(analysis.value[i].start_time, response.data[i].start_time)
             /\ SameNumber(analysis.value[i].duration, response.data[i].duration)

\* C3 as amended: for a list of length >= N whose entries all have the
\* three fields, with a panel that int() converts and a start >= 0 and a
\* duration > 0 that float() converts, the validation returns exactly the
\* first N entries, in order, start and duration values unchanged.
C3_ValidListGivesFirstN ==
    (/\ ValidationRan
     /\ Len(response.data) >= panel_count
     /\ \A i \in 1..Len(response.data) : ValidEntry(response.data[i]))
    => /\ analysis.status = "ok"
       /\ Len(analysis.value) = panel_count
       /\ \A i \in 1..panel_count :
             /\ SameNumber(analysis.value[i].start_time, response.data[i].start_time)
             /\ SameNumber(analysis.value[i].duration, response.data[i].duration)

\* three different valid entries for two panels: the third is dropped
C3_Witness ==
    /\ ValidationRan
    /\ panel_count = 2
    /\ Len(response.data) = 3
    /\ \A i \in 1..3 : ValidEntry(response.data[i])
    /\ response.data[1].start_time = Ticks(3)
    /\ response.data[2].start_time = NumStr(1, 2)
    /\ response.data[2].duration = NumStr(41, 20)
    /\ response.data[3].start_time = Ticks(0)
    /\ analysis.status = "ok"
    /\ Len(analysis.value) = 2
    /\ analysis.value[2].start_time = Num(1, 2)
    /\ analysis.value[2].duration = Num(41, 20)

\* C15: in every sequence the validation returns, the panel indices are
\* exactly 1, 2, ..., N in list order, whatever panel values the raw
\* entries carried.
C15_PanelIndicesSequential ==
    (ValidationRan /\ analysis.status = "ok") =>
        \A i \in 1..Len(analysis.value) : analysis.value[i].panel = IntNum(i)

\* C16: every sequence the validation returns has exactly N entries, with
\* non-negative starts that never decrease in list order and without gaps:
\* each entry starts where the previous one ends.
C16_ReturnedSequenceGapFree ==
    (ValidationRan /\ analysis.status = "ok") =>
        /\ Len(analysis.value) = panel_count
        /\ \A i \in 1..Len(analysis.value) :
              LessEq(IntNum(0), analysis.value[i].start_time)
        /\ \A i \in 2..Len(analysis.value) :
              /\ LessEq(analysis.value[i - 1].start_time, analysis.value[i].start_time)
              /\ analysis.value[i].start_time =
                    Add(analysis.value[i - 1].start_time, analysis.value[i - 1].duration)

\* C25 as stated: once analyze_audio_timing has written the audio to its
\* temporary file, the file no longer exists when the function exits, on
\* every exit path (a valid result, None, or a raised exception).
C25_TempFileGoneAtExit ==
    (pc = "analysis_done" /\ temp_audio.written) => ~ temp_audio.exists

\* C25, amended: once analyze_audio_timing has written the audio to its
\* temporary file, then on every exit path (a valid result, None, or a
\* raised exception) the file no longer exists when the function exits
\* unless the os.unlink call of the finally block raised, an error the
\* function ignores, leaving the file and its own outcome as they are.
C25_TempFileGoneUnlessUnlinkRaised ==
    (pc = "analysis_done" /\ temp_audio.written) =>
        /\ analysis.status \in {"ok", "none", "raise"}
        /\ temp_audio.exists <=> temp_audio.unlink_raised
        /\ analysis = analyze_audio_timing(request, panel_count, response)

\* the generation call timed out after the audio was written: the function
\* raises and the file is gone
C25_Witness ==
    /\ pc = "analysis_done"
    /\ response.kind = "generate_error"
    /\ response.cause = "request timeout"
    /\ analysis.error = "Audio analysis timed out after 60 seconds"
    /\ temp_audio.written
    /\ ~ temp_audio.unlink_raised
    /\ ~ temp_audio.exists

----------------------------------------------------------------------------
(* SpecApp: the page.  The user fills the panels uploader and clicks       *)
(* "Process & Generate XML"; the API key, the audio file and the script    *)
(* are present and valid throughout, and so is every uploaded image, so    *)
(* that ready_to_process (line 355) is "at least one panel uploaded".      *)
(* A session is followed through two clicks: pc is "page" before the       *)
(* first, "results" from the first on and "rerun" from the second on.      *)
(* The handler runs in steps that end where the script calls Streamlit     *)
(* (st.error, progress_bar.progress, ...): at such a call the script is    *)
(* stopped when the user has touched a widget meanwhile, and the next run  *)
(* of the script starts from what the session state holds then.  The file  *)
(* system of the page lets os.unlink succeed; SpecNormalizer follows both  *)
(* outcomes.                                                               *)

\* names of the files the user uploads, in the order of selection
UserFileNames == <<"page_a.png", "page_b.png", "page_c.png", "page_d.png", "page_e.png">>

\* what happens to a panel that is not in the cache
PanelOutcomes == {"ok", "api_error", "exception"}

\* values of the "Fallback duration per panel" slider (1.0 to 10.0 by 0.5)
SliderValues == {IntNum(1), Num(5, 2)}

AppGoodEntry == [panel |-> IntNum(1), start_time |-> Ticks(0), duration |-> Ticks(2)]
AppBadEntry == [panel |-> IntNum(1), start_time |-> Ticks(0), duration |-> IntNum(-1)]

\* names of the audio file the user uploads: voice.mp3 and "voi\x01ce.mp3",
\* whose fourth character no XML document can hold
AppAudioNames == {AudioFileName, <<118, 111, 105, 1, 99, 101, 46, 109, 112, 51>>}

\* "duration": 1e999, which json.loads reads as float("inf")
AppInfEntry == [panel |-> IntNum(1), start_time |-> Ticks(0), duration |-> Inf]

\* the model's replies: a call that times out, an upload refused for the
\* quota, a reply without JSON, lists of 1..MaxReply valid entries, a list
\* that starts with an invalid entry and one that starts with an entry of
\* infinite duration
AppReplies ==
    {[kind |-> "generate_error", data |-> <<>>, cause |-> "request timeout"],
     [kind |-> "upload_error", data |-> <<>>, cause |-> "429 Quota exceeded"],
     [kind |-> "no_json", data |-> <<>>, cause |-> ""]}
    \cup {[kind |-> "list", data |-> [i \in 1..n |-> AppGoodEntry], cause |-> ""] :
             n \in 1..MaxReply}
    \cup {[kind |-> "list", cause |-> "",
           data |-> [i \in 1..MaxReply |-> IF i = 1 THEN e ELSE AppGoodEntry]] :
             e \in {AppBadEntry, AppInfEntry}}

InitApp ==
    /\ pc = "page"
    /\ request = GoodRequest
    /\ panel_count = 0
    /\ total_duration = Zero
    /\ fallback = NoCall
    /\ response = NoResponse
    /\ analysis = NoCall
    /\ image_filenames = <<>>
    /\ timings = <<>>
    /\ audio_filename \in AppAudioNames
    /\ audio_duration = Zero
    /\ xml = NoXml
    /\ temp_audio = NoTempFile
    /\ AppIdle

\* no run of the handler is under way
Idle == run.at \in {"idle", "stopped"}

\* lines 247-258: the user selects k files in the uploader and the script
\* reruns; the selection replaces the session list
UploadPanels ==
    /\ pc = "page"
    /\ \E k \in 1..MaxUpload :
          /\ uploaded_files' = SubSeq(UserFileNames, 1, k)
          /\ uploaded_panels_list' = SubSeq(UserFileNames, 1, k)
    /\ UNCHANGED <<pc, callVars, temp_audio, panels_order_reversed, processed_images_cache,
                   processing_complete, zip_data, session_timings, messages, run>>

\* lines 256-258 and 401-415: a click on "Process & Generate XML".  The
\* script reruns from the top with the widgets' values, takes the
\* uploader's files as the session list, clears the flag and enters the
\* handler with nothing processed and nothing shown yet.
Click(from, to) ==
    /\ pc = from
    /\ Idle
    /\ pc' = to
    /\ LET panels == IF uploaded_files # <<>> THEN uploaded_files ELSE uploaded_panels_list
       IN  /\ Len(panels) > 0
           /\ uploaded_panels_list' = panels
    /\ \E remove_text \in BOOLEAN, fallback_panel_duration \in SliderValues :
          run' = [at |-> "panels", i |-> 1, remove_text |-> remove_text,
                  duration |-> fallback_panel_duration, images |-> <<>>]
    /\ processing_complete' = FlagAtClick(processing_complete)
    /\ messages' = {}
    /\ image_filenames' = <<>>
    /\ panel_count' = 0
    /\ response' = NoResponse
    /\ analysis' = NoCall
    /\ total_duration' = Zero
    /\ fallback' = NoCall
    /\ timings' = <<>>
    /\ audio_duration' = Zero
    /\ xml' = NoXml
    /\ UNCHANGED <<request, audio_filename, temp_audio, uploaded_files, panels_order_reversed,
                   processed_images_cache, zip_data, session_timings>>

FirstClick == Click("page", "results")
SecondClick == Click("results", "rerun")

\* lines 417-456: the loop body for the next panel
PanelStep ==
    /\ run.at = "panels"
    /\ run.i <= Len(uploaded_panels_list)
    /\ \E outcome \in PanelOutcomes :
       \E acc \in {ProcessPanel(uploaded_panels_list, run.remove_text, outcome, run.i,
                                [images |-> run.images, cache |-> processed_images_cache,
                                 msgs |-> messages])} :
          /\ run' = [run EXCEPT !.i = @ + 1, !.images = acc.images]
          /\ processed_images_cache' = acc.cache
          /\ messages' = acc.msgs
          /\ image_filenames' = [k \in 1..Len(acc.images) |-> acc.images[k].filename]
          /\ panel_count' = Len(acc.images)
    /\ UNCHANGED <<pc, request, total_duration, fallback, response, analysis, timings,
                   audio_filename, audio_duration, xml, temp_audio, uploaded_files,
                   uploaded_panels_list, panels_order_reversed, processing_complete,
                   zip_data, session_timings>>

\* lines 458-459: no panel was processed, the run raises ValueError
NoPanels ==
    /\ run.at = "panels"
    /\ run.i > Len(uploaded_panels_list)
    /\ AfterPanels(run.images) = "failing"
    /\ run' = [run EXCEPT !.at = "failing"]
    /\ UNCHANGED <<pc, callVars, temp_audio, uploaded_files, uploaded_panels_list,
                   panels_order_reversed, processed_images_cache, processing_complete,
                   zip_data, session_timings, messages>>

\* what step 2 does in this run, given the reply
Step2 == AnalyzeStep(image_filenames, run.duration, response)

\* lines 461-478: the call of analyze_audio_timing through safe_api_call
AnalyzeAudio ==
    /\ run.at = "panels"
    /\ run.i > Len(uploaded_panels_list)
    /\ AfterPanels(run.images) = "analysis"
    /\ \E resp \in AppReplies :
          /\ response' = resp
          /\ analysis' = AnalyzeStep(image_filenames, run.duration, resp).analysis
          /\ temp_audio' = TempAudioFile(request, Len(image_filenames), resp, FALSE)
    /\ run' = [run EXCEPT !.at = "analyzed"]
    /\ UNCHANGED <<pc, request, panel_count, total_duration, fallback, image_filenames,
                   timings, audio_filename, audio_duration, xml, uploaded_files,
                   uploaded_panels_list, panels_order_reversed, processed_images_cache,
                   processing_complete, zip_data, session_timings, messages>>

\* lines 480-481: st.warning(error)
ShowWarning ==
    /\ run.at = "analyzed"
    /\ Step2.warning # ""
    /\ messages' = messages \cup {"warning_" \o Step2.warning}
    /\ run' = [run EXCEPT !.at = "warned"]
    /\ UNCHANGED <<pc, callVars, temp_audio, uploaded_files, uploaded_panels_list,
                   panels_order_reversed, processed_images_cache, processing_complete,
                   zip_data, session_timings>>

\* step 2 is past the warning, if there was one to show
PastWarning == run.at = "warned" \/ (run.at = "analyzed" /\ Step2.warning = "")

\* lines 487-490: the fallback timings
UseFallback ==
    /\ PastWarning
    /\ Step2.use_fallback
    /\ total_duration' = Step2.total_duration
    /\ fallback' = Step2.fallback
    /\ run' = [run EXCEPT !.at = "fallback"]
    /\ UNCHANGED <<pc, request, panel_count, response, analysis, image_filenames, timings,
                   audio_filename, audio_duration, xml, temp_audio, uploaded_files,
                   uploaded_panels_list, panels_order_reversed, processed_images_cache,
                   processing_complete, zip_data, session_timings, messages>>

\* line 491: st.info; if generate_fallback_timings raised instead, lines
\* 496-499 (st.error, and the call raises again, which goes on to line 581)
ShowFallbackInfo ==
    /\ run.at = "fallback"
    /\ IF Step2.raised
       THEN /\ messages' = messages \cup {"analysis_error"}
            /\ run' = [run EXCEPT !.at = "failing"]
       ELSE /\ messages' = messages \cup {"fallback_info"}
            /\ run' = [run EXCEPT !.at = "timed"]
    /\ UNCHANGED <<pc, callVars, temp_audio, uploaded_files, uploaded_panels_list,
                   panels_order_reversed, processed_images_cache, processing_complete,
                   zip_data, session_timings>>

\* line 493: st.success
ShowAiSuccess ==
    /\ PastWarning
    /\ ~ Step2.use_fallback
    /\ messages' = messages \cup {"ai_success"}
    /\ run' = [run EXCEPT !.at = "timed"]
    /\ UNCHANGED <<pc, callVars, temp_audio, uploaded_files, uploaded_panels_list,
                   panels_order_reversed, processed_images_cache, processing_complete,
                   zip_data, session_timings>>

\* lines 505-517: the call of create_premiere_xml
GenerateXml ==
    /\ run.at = "timed"
    /\ \E step3 \in {XmlStep(image_filenames, Step2.timings, audio_filename)} :
          /\ timings' = Step2.timings
          /\ audio_duration' = step3.audio_duration
          /\ xml' = step3.xml
          /\ run' = [run EXCEPT !.at = AfterXml(step3.xml)]
    /\ UNCHANGED <<pc, request, audio_filename, panel_count, total_duration, fallback,
                   response, analysis,
                   image_filenames, temp_audio, uploaded_files, uploaded_panels_list,
                   panels_order_reversed, processed_images_cache, processing_complete,
                   zip_data, session_timings, messages>>

\* lines 521-524: st.error, and the exception goes on to line 581
ShowXmlError ==
    /\ run.at = "xml_raised"
    /\ messages' = messages \cup {"xml_error"}
    /\ run' = [run EXCEPT !.at = "failing"]
    /\ UNCHANGED <<pc, callVars, temp_audio, uploaded_files, uploaded_panels_list,
                   panels_order_reversed, processed_images_cache, processing_complete,
                   zip_data, session_timings>>

\* lines 529-571: the archive is written and stored in the session state
StoreZip ==
    /\ run.at = "xml"
    /\ processing_complete' = TRUE
    /\ zip_data' = [built |-> TRUE, xml |-> xml, images |-> run.images,
                    audio |-> audio_filename]
    /\ session_timings' = timings
    /\ run' = [run EXCEPT !.at = "stored"]
    /\ UNCHANGED <<pc, callVars, temp_audio, uploaded_files, uploaded_panels_list,
                   panels_order_reversed, processed_images_cache, messages>>

\* lines 529-575: writing the archive raises; st.error, and the exception
\* goes on to line 581
ZipError ==
    /\ run.at = "xml"
    /\ messages' = messages \cup {"zip_error"}
    /\ run' = [run EXCEPT !.at = "failing"]
    /\ UNCHANGED <<pc, callVars, temp_audio, uploaded_files, uploaded_panels_list,
                   panels_order_reversed, processed_images_cache, processing_complete,
                   zip_data, session_timings>>

\* lines 581-582: the outer except clause shows the error
ShowOuterError ==
    /\ run.at = "failing"
    /\ messages' = messages \cup {"outer_error"}
    /\ run' = [run EXCEPT !.at = "advice"]
    /\ UNCHANGED <<pc, callVars, temp_audio, uploaded_files, uploaded_panels_list,
                   panels_order_reversed, processed_images_cache, processing_complete,
                   zip_data, session_timings>>

\* line 583: the second st.error of the clause, the advice that goes with
\* the error shown
ShowAdvice ==
    /\ run.at = "advice"
    /\ run' = [run EXCEPT !.at = "details"]
    /\ UNCHANGED <<pc, callVars, temp_audio, uploaded_files, uploaded_panels_list,
                   panels_order_reversed, processed_images_cache, processing_complete,
                   zip_data, session_timings, messages>>

\* lines 584-585: st.checkbox; the box is made in this run and is not
\* ticked, so st.code is not called.  The run is over.
ShowDetailsBox ==
    /\ run.at = "details"
    /\ run' = NoRun
    /\ UNCHANGED <<pc, callVars, temp_audio, uploaded_files, uploaded_panels_list,
                   panels_order_reversed, processed_images_cache, processing_complete,
                   zip_data, session_timings, messages>>

\* lines 578-579: st.balloons, st.success; the run is over
ShowSuccess ==
    /\ run.at = "stored"
    /\ messages' = messages \cup {"success"}
    /\ run' = NoRun
    /\ UNCHANGED <<pc, callVars, temp_audio, uploaded_files, uploaded_panels_list,
                   panels_order_reversed, processed_images_cache, processing_complete,
                   zip_data, session_timings>>

\* the user touches a widget while the handler runs: the script is stopped
\* at the Streamlit call it reaches next, the session state stays as it is.
\* The run of the second click is followed to its end: a stop would leave
\* the session in one of the states the run passes through.
Stop ==
    /\ ~ Idle
    /\ pc = "results"
    /\ run' = [NoRun EXCEPT !.at = "stopped"]
    /\ UNCHANGED <<pc, callVars, temp_audio, uploaded_files, uploaded_panels_list,
                   panels_order_reversed, processed_images_cache, processing_complete,
                   zip_data, session_timings, messages>>

\* the steps of the handler
HandlerStep ==
    \/ PanelStep \/ NoPanels \/ AnalyzeAudio \/ ShowWarning \/ UseFallback
    \/ ShowFallbackInfo \/ ShowAiSuccess \/ GenerateXml \/ ShowXmlError
    \/ StoreZip \/ ZipError \/ ShowOuterError \/ ShowAdvice \/ ShowDetailsBox
    \/ ShowSuccess \/ Stop

\* lines 652-656: "Process Another Comic", shown with the results
ProcessAnotherComic ==
    /\ pc = "results"
    /\ Idle
    /\ processing_complete
    /\ processing_complete' = FALSE
    /\ processed_images_cache' = <<>>
    /\ UNCHANGED <<pc, callVars, temp_audio, uploaded_files, uploaded_panels_list,
                   panels_order_reversed, zip_data, session_timings, messages, run>>

NextApp == UploadPanels \/ FirstClick \/ SecondClick \/ HandlerStep \/ ProcessAnotherComic

SpecApp == InitApp /\ [][NextApp]_vars

----------------------------------------------------------------------------
(* Claims about the Process run (SpecApp) *)

\* a Process run has come to its end (line 579 or line 585), and no click
\* has followed it
RunOver == pc \in {"results", "rerun"} /\ run.at = "idle"

\* the run is in the outer except clause (lines 581-585)
InOuterExcept == run.at \in {"failing", "advice", "details"}

\* C4: whenever analyze_audio_timing returned None or raised in a run that
\* processed N >= 1 images, the run goes on: it shows no analysis error,
\* calls generate_fallback_timings for N panels, takes its N timings, and
\* create_premiere_xml returns a document with N video clips.  The only
\* error such a run can end with is one from writing the archive, and
\* without it the run ends in success.
C4_FallbackOnUnusableTiming ==
    (pc \in {"results", "rerun"} /\ analysis.status \in {"none", "raise"}) =>
        /\ image_filenames # <<>>
        /\ messages \cap {"analysis_error", "xml_error"} = {}
        /\ \/ run.at \in {"analyzed", "warned", "fallback", "timed", "xml", "stored"}
           \/ run.at \in {"idle", "stopped"}
           \/ InOuterExcept
        /\ (run.at \in {"fallback", "timed", "xml", "stored", "idle"} \/ InOuterExcept) =>
              /\ fallback = generate_fallback_timings(Len(image_filenames), total_duration)
              /\ fallback.status = "ok"
              /\ Len(fallback.value) = Len(image_filenames)
        /\ (run.at \in {"xml", "stored", "idle"} \/ InOuterExcept) =>
              /\ timings = fallback.value
              /\ xml.status = "ok"
              /\ Len(xml.video) = Len(image_filenames)
        /\ (run.at = "idle" \/ InOuterExcept) =>
              /\ (InOuterExcept \/ "outer_error" \in messages) => "zip_error" \in messages
              /\ "zip_error" \notin messages =>
                    /\ "success" \in messages
                    /\ zip_data.built
                    /\ zip_data.xml = xml

\* C4 as amended: whenever analyze_audio_timing returned None or raised in
\* a run that processed N >= 1 images, the run goes on: it shows no
\* analysis error, calls generate_fallback_timings for N panels, takes its
\* N timings and calls create_premiere_xml with them, which returns a
\* document with N video clips unless the audio file name holds a character
\* XML 1.0 does not allow; only then does the call raise and the run end
\* with the serializer's error.  The only other error such a run can end
\* with is one from writing the archive, and without an error the run ends
\* in success.
C4_FallbackThenSerialization ==
    (pc \in {"results", "rerun"} /\ analysis.status \in {"none", "raise"}) =>
        /\ image_filenames # <<>>
        /\ "analysis_error" \notin messages
        /\ \/ run.at \in {"analyzed", "warned", "fallback", "timed", "xml", "xml_raised",
                          "stored", "idle", "stopped"}
           \/ InOuterExcept
        /\ (\/ run.at \in {"fallback", "timed", "xml", "xml_raised", "stored", "idle"}
            \/ InOuterExcept) =>
              /\ fallback = generate_fallback_timings(Len(image_filenames), total_duration)
              /\ fallback.status = "ok"
              /\ Len(fallback.value) = Len(image_filenames)
        /\ (run.at \in {"xml", "xml_raised", "stored", "idle"} \/ InOuterExcept) =>
              /\ timings = fallback.value
              /\ xml = create_premiere_xml(image_filenames, timings, audio_filename,
                                           audio_duration)
              /\ xml.status = "raise" <=> ~ WellFormed(audio_filename)
              /\ xml.status # "raise" =>
                    /\ xml.status = "ok"
                    /\ Len(xml.video) = Len(image_filenames)
                    /\ "xml_error" \notin messages
              /\ run.at = "xml" => xml.status = "ok"
              /\ run.at = "xml_raised" => xml.status = "raise"
        /\ (run.at = "idle" \/ InOuterExcept) =>
              /\ (InOuterExcept \/ "outer_error" \in messages) =>
                    IF xml.status = "raise" THEN "xml_error" \in messages
                                            ELSE "zip_error" \in messages
              /\ messages \cap {"zip_error", "xml_error"} = {} =>
                    /\ "success" \in messages
                    /\ zip_data.built
                    /\ zip_data.xml = xml

\* two processed panels and a reply with one valid entry: the analysis
\* returns None, the fallback gives two timings and the run ends in success
C4_Witness ==
    /\ RunOver
    /\ Len(image_filenames) = 2
    /\ response.kind = "list"
    /\ Len(response.data) = 1
    /\ analysis = ReturnNone
    /\ fallback.status = "ok"
    /\ Len(timings) = 2
    /\ xml.status = "ok"
    /\ Len(xml.video) = 2
    /\ processing_complete
    /\ zip_data.built
    /\ "success" \in messages

\* C17: when create_premiere_xml raises in a Process run, the run goes to
\* the outer except clause and nowhere else: no archive is built, the step
\* leaves zip_data and timings in the session state as they were and no
\* later step of the run writes them, processing_complete is False, no
\* success is shown, and the run shows both errors before it ends.
C17_XmlFailureAbortsRun ==
    /\ [](xml.status = "raise" =>
             /\ ~ processing_complete
             /\ "success" \notin messages
             /\ run.at \in {"xml_raised", "idle", "stopped"} \/ InOuterExcept
             /\ (run.at = "idle" \/ InOuterExcept) => "xml_error" \in messages
             /\ run.at \in {"advice", "details", "idle"} => "outer_error" \in messages)
    /\ [][(xml.status = "raise" \/ xml'.status = "raise") =>
             /\ zip_data' = zip_data
             /\ session_timings' = session_timings]_vars

\* a second run whose timings carry an infinite duration, after a first run
\* that built the archive: the archive and timings of the first run remain
C17_Witness ==
    /\ pc = "rerun"
    /\ run.at = "idle"
    /\ xml.status = "raise"
    /\ \E i \in 1..Len(timings) : IsInf(timings[i].duration)
    /\ zip_data.built
    /\ zip_data.xml.status = "ok"
    /\ session_timings # <<>>
    /\ session_timings # timings
    /\ ~ processing_complete
    /\ {"xml_error", "outer_error"} \subseteq messages

\* C18: a Process run calls generate_fallback_timings only with
\* panel_count >= 1 and total_duration > 0 (at least 1.0 s per panel), so
\* the call never raises; the serializer is called with one timing per
\* processed panel, and every run that processed a panel and came to its
\* end has called it.
C18_FallbackArgumentsValid ==
    /\ fallback.status # "pending" =>
          /\ panel_count >= 1
          /\ panel_count = Len(image_filenames)
          /\ Less(Zero, total_duration)
          /\ LessEq(IntNum(panel_count), total_duration)
          /\ fallback = generate_fallback_timings(panel_count, total_duration)
          /\ fallback.status = "ok"
          /\ Len(fallback.value) = panel_count
    /\ "analysis_error" \notin messages
    /\ run.at \in {"analyzed", "warned", "fallback", "timed", "xml", "xml_raised",
                   "stored"} => image_filenames # <<>>
    /\ xml.status # "pending" =>
          /\ timings # <<>>
          /\ Len(timings) = Len(image_filenames)
    /\ (RunOver /\ image_filenames # <<>>) => xml.status # "pending"

\* one processed panel and the slider at its minimum: the fallback is called
\* with (1, 1.0)
C18_Witness ==
    /\ RunOver
    /\ Len(image_filenames) = 1
    /\ panel_count = 1
    /\ total_duration = IntNum(1)
    /\ fallback.status = "ok"
    /\ Len(timings) = 1
    /\ timings = fallback.value
    /\ xml.status = "ok"

\* C21: at every call of create_premiere_xml made by a Process run, the
\* timings and the image file names have the same length, at least 1: the
\* analysis and the fallback were asked for Len(image_filenames) panels, a
\* returned analysis has that many entries, and the document, when the
\* serializer returns one, has one clip for each.
C21_SameLengthsAtXmlCall ==
    (pc \in {"results", "rerun"} /\ xml.status # "pending") =>
        /\ Len(image_filenames) >= 1
        /\ Len(timings) = Len(image_filenames)
        /\ panel_count = Len(image_filenames)
        /\ analysis = analyze_audio_timing(request, Len(image_filenames), response)
        /\ analysis.status = "ok" =>
              /\ Len(analysis.value) = Len(image_filenames)
              /\ timings = analysis.value
              /\ fallback = NoCall
        /\ analysis.status # "ok" =>
              /\ fallback = generate_fallback_timings(Len(image_filenames), total_duration)
              /\ timings = fallback.value
        /\ xml = create_premiere_xml(image_filenames, timings, audio_filename,
                                     audio_duration)
        /\ xml.status = "ok" => Len(xml.video) = Len(image_filenames)

\* two uploads of which one could not be read, and a reply of two valid
\* entries: the analysis is asked for one panel and returns the first entry
C21_Witness ==
    /\ pc = "results"
    /\ Len(uploaded_panels_list) = 2
    /\ Len(image_filenames) = 1
    /\ "panel_exception" \in messages
    /\ response.kind = "list"
    /\ Len(response.data) = 2
    /\ analysis.status = "ok"
    /\ Len(timings) = 1
    /\ xml.status = "ok"
    /\ Len(xml.video) = 1

CacheKey(name, remove_text) == [name |-> name, remove_text |-> remove_text]

\* a step that is one pass of the panel loop
PanelPass == run.at = "panels" /\ run'.at = "panels" /\ run'.i = run.i + 1

\* C26: the processed-image cache only ever holds results of successful
\* process_image_to_bytes calls, under the panel's file name and the
\* remove_text setting.  A pass of the panel loop keeps the entries it
\* finds; for a panel that has an entry it takes the entry and writes
\* nothing; for a panel that has none it either adds the processed result
\* and takes it, or, the call having failed, takes the original bytes and
\* writes nothing, or, the panel being unreadable, takes nothing.  No other
\* step changes the cache, except "Process Another Comic", which empties it.
C26_CacheHoldsSuccessfulResults ==
    [][/\ \A key \in DOMAIN processed_images_cache' :
             processed_images_cache'[key] = ProcessedBytes(key.name, key.remove_text)
       /\ PanelPass =>
             LET name == uploaded_panels_list[run.i]
                 key == CacheKey(name, run.remove_text)
                 taken == Len(run'.images) = Len(run.images) + 1
                 data == run'.images[Len(run'.images)].data
             IN  /\ \A k \in DOMAIN processed_images_cache :
                        /\ k \in DOMAIN processed_images_cache'
                        /\ processed_images_cache'[k] = processed_images_cache[k]
                 /\ DOMAIN processed_images_cache' \subseteq
                        DOMAIN processed_images_cache \cup {key}
                 /\ key \in DOMAIN processed_images_cache =>
                        /\ taken
                        /\ data = processed_images_cache[key]
                 /\ key \notin DOMAIN processed_images_cache =>
                        \/ /\ taken
                           /\ data = ProcessedBytes(name, run.remove_text)
                           /\ key \in DOMAIN processed_images_cache'
                        \/ /\ taken
                           /\ data = OriginalBytes(name)
                           /\ key \notin DOMAIN processed_images_cache'
                           /\ "panel_error" \in messages'
                        \/ /\ run'.images = run.images
                           /\ key \notin DOMAIN processed_images_cache'
                           /\ "panel_exception" \in messages'
       /\ ~ PanelPass =>
             \/ processed_images_cache' = processed_images_cache
             \/ /\ processing_complete /\ ~ processing_complete'
                /\ processed_images_cache' = <<>>]_vars

\* a second run of two panels in which the call fails for the first: it
\* goes into the archive with its original bytes and has no entry under
\* either setting, while the second panel's image is the cached result
C26_Witness ==
    /\ pc = "rerun"
    /\ "panel_error" \in messages
    /\ processing_complete
    /\ Len(zip_data.images) = 2
    /\ zip_data.images[1].data = OriginalBytes(uploaded_panels_list[1])
    /\ \A rt \in BOOLEAN :
          CacheKey(uploaded_panels_list[1], rt) \notin DOMAIN processed_images_cache
    /\ zip_data.images[2].data.processed
    /\ CacheKey(uploaded_panels_list[2], zip_data.images[2].data.remove_text)
          \in DOMAIN processed_images_cache
    /\ processed_images_cache[CacheKey(uploaded_panels_list[2],
                                       zip_data.images[2].data.remove_text)]
          = zip_data.images[2].data

----------------------------------------------------------------------------
(* SpecPage: the panel setup section of the page before the first Process  *)
(* click.  Every action is one run of the script: the run an interaction   *)
(* starts, or the rerun a run asked for (pc is "reversed" until it is      *)
(* made); the script runs lines 247-258 from the top on every run.         *)

\* line 269: list(reversed(s))
Reverse(s) == [i \in 1..Len(s) |-> s[Len(s) + 1 - i]]

\* the user removes the files from the uploader: it returns no file on the
\* rerun, line 256 is false and the session list stays as it is
ClearUploader ==
    /\ pc = "page"
    /\ uploaded_files # <<>>
    /\ uploaded_files' = <<>>
    /\ UNCHANGED <<pc, callVars, temp_audio, uploaded_panels_list, panels_order_reversed,
                   processed_images_cache, processing_complete, zip_data,
                   session_timings, messages, run>>

\* lines 256-271: the run of a click on "Reverse Order", shown when the
\* session list is not empty.  The run takes the uploader's files as the
\* session list (256-257) when it holds any, reverses the list (269),
\* toggles the flag (270) and asks for a rerun (271), which ends it.
ReverseOrder ==
    /\ pc = "page"
    /\ uploaded_panels_list # <<>>
    /\ uploaded_panels_list' = Reverse(IF uploaded_files # <<>> THEN uploaded_files
                                                                ELSE uploaded_panels_list)
    /\ panels_order_reversed' = ~ panels_order_reversed
    /\ pc' = "reversed"
    /\ UNCHANGED <<callVars, temp_audio, uploaded_files, processed_images_cache,
                   processing_complete, zip_data, session_timings, messages, run>>

\* the rerun line 271 asked for: the script runs from the top, passes lines
\* 256-257 with the files the uploader holds, and the validation loop of
\* lines 284-300 reads the session list
RerunAfterReverse ==
    /\ pc = "reversed"
    /\ uploaded_panels_list' = IF uploaded_files # <<>> THEN uploaded_files
                                                        ELSE uploaded_panels_list
    /\ pc' = "page"
    /\ UNCHANGED <<callVars, temp_audio, uploaded_files, panels_order_reversed,
                   processed_images_cache, processing_complete, zip_data,
                   session_timings, messages, run>>

NextPage ==
    \/ UploadPanels \/ ClearUploader \/ ReverseOrder \/ RerunAfterReverse
    \/ FirstClick \/ HandlerStep

SpecPage == InitApp /\ [][NextPage]_vars

----------------------------------------------------------------------------
(* Claims about the panel order (SpecPage) *)

\* the run of a click on "Reverse Order"
ReverseClick == pc = "page" /\ pc' = "reversed"

\* the rerun that follows it, in which the validation loop reads the list
ReverseRerun == pc = "reversed" /\ pc' = "page"

\* a step that is a click on "Process & Generate XML"
ProcessClick == pc = "page" /\ pc' = "results"

\* a step in which the run stores its archive
ArchiveStored == zip_data' # zip_data

\* C23: a click on "Reverse Order" while the uploader holds the files puts
\* the session list in the reverse of the order it had before the click;
\* the validation that follows, in the rerun, reads the list as the click
\* left it, with panels_order_reversed true exactly when the list is the
\* reverse of the uploader's order (so that a second click restores the
\* uploader's order), and the Process run that follows works on that list.
C23_ReverseOrderTakesEffect ==
    [][/\ (ReverseClick /\ uploaded_files # <<>>) =>
             uploaded_panels_list' = Reverse(uploaded_panels_list)
       /\ (ReverseRerun /\ uploaded_files # <<>>) =>
             /\ uploaded_panels_list' = uploaded_panels_list
             /\ panels_order_reversed' =>
                    uploaded_panels_list' = Reverse(uploaded_files')
             /\ ~ panels_order_reversed' => uploaded_panels_list' = uploaded_files'
       /\ (ProcessClick /\ uploaded_files # <<>>) =>
             uploaded_panels_list' = uploaded_panels_list
       /\ ArchiveStored =>
             \A i \in 1..Len(zip_data'.images) :
                \E j \in 1..Len(uploaded_panels_list) :
                   /\ zip_data'.images[i].filename = PanelFileName(j)
                   /\ zip_data'.images[i].data.source = uploaded_panels_list[j]]_vars

====
